---- MODULE Spec2Model ----
(***************************************************************************)
(* Model of the collar backend's streaming step-counting engine            *)
(* (src/app.js, lines 1-1261: StepCounter, the in-memory session maps,     *)
(* PUT /chunks and POST /step-counter-params).                             *)
(*                                                                         *)
(* Numbers.  The code computes in IEEE doubles.  Every filtered value is   *)
(* filterSum / filterCount with 1 <= filterCount <= FILTER_WINDOW_SIZE, so *)
(* the model stores a filtered value v as the integer v * unit, where      *)
(* unit = lcm(1..FILTER_WINDOW_SIZE); thresholds are multiplied by unit    *)
(* where the code compares them with a filtered value.  All comparisons of *)
(* the code are then exact integer comparisons.                            *)
(***************************************************************************)
EXTENDS Integers, Sequences, FiniteSets, TLC

(***************************************************************************)
(* Small arithmetic helpers                                                *)
(***************************************************************************)
RECURSIVE Gcd(_, _)
Gcd(a, b) == IF b = 0 THEN a ELSE Gcd(b, a % b)

RECURSIVE LcmUpTo(_)
LcmUpTo(n) == IF n <= 1 THEN 1
              ELSE LET l == LcmUpTo(n - 1) IN (l * n) \div Gcd(l, n)

RECURSIVE IsqrtFrom(_, _)
IsqrtFrom(n, r) == IF (r + 1) * (r + 1) > n THEN r ELSE IsqrtFrom(n, r + 1)

\* Math.round(num / den) for den > 0: floor(num/den + 1/2)
MathRound(num, den) == (2 * num + den) \div (2 * den)

SeqLast(s, n) == IF Len(s) <= n THEN s ELSE SubSeq(s, Len(s) - n + 1, Len(s))

RECURSIVE SeqSum(_)
SeqSum(s) == IF s = <<>> THEN 0 ELSE Head(s) + SeqSum(Tail(s))

(***************************************************************************)
(* A stored parameter is <<>> (SQL NULL / absent) or <<v>>.  JavaScript's  *)
(* `x || d` takes d when x is null, undefined or 0.                        *)
(***************************************************************************)
Null == <<>>

OrDefault(x, d) == IF x = Null \/ x = <<0>> THEN d ELSE x[1]

NoParams == [peak_threshold |-> Null, peak_window_n |-> Null,
             filter_window_size |-> Null, process_window_samples |-> Null,
             run_start_threshold |-> Null, shake_start_threshold |-> Null]

(***************************************************************************)
(* class StepCounter                                                       *)
(***************************************************************************)
DEFAULT_PEAK_THRESHOLD == 12
DEFAULT_PEAK_WINDOW_N == 4
VALLEY_WINDOW_N == 2
DEFAULT_FILTER_WINDOW_SIZE == 5
DEFAULT_PROCESS_WINDOW_SAMPLES == 100
DEFAULT_RUN_START_THRESHOLD == 30
DEFAULT_SHAKE_START_THRESHOLD == 12
RUN_END_THRESHOLD_HIGH == 20
RUN_END_THRESHOLD_LOW == 12
RUN_PEAK_VALLEY_DIFF == 20
\* RUN_SCALING_FACTOR = 2.1 = RUN_SCALING_NUM / RUN_SCALING_DEN
RUN_SCALING_NUM == 21
RUN_SCALING_DEN == 10
BASELINE_STEP_SAMPLES == 29
SHAKE_PEAK_VALLEY_DIFF == 12
SHAKE_REGIONAL_PEAK_MAX == 39
SHAKE_VARIANCE_THRESHOLD == 10
GYRO_MIN_SAMPLES == 10

\* new StepCounter(params)
NewStepCounter(params) ==
    LET W == OrDefault(params.filter_window_size, DEFAULT_FILTER_WINDOW_SIZE) IN
    [ PEAK_THRESHOLD |-> OrDefault(params.peak_threshold, DEFAULT_PEAK_THRESHOLD),
      PEAK_WINDOW_N |-> OrDefault(params.peak_window_n, DEFAULT_PEAK_WINDOW_N),
      FILTER_WINDOW_SIZE |-> W,
      PROCESS_WINDOW_SAMPLES |->
          OrDefault(params.process_window_samples, DEFAULT_PROCESS_WINDOW_SAMPLES),
      RUN_START_THRESHOLD |->
          OrDefault(params.run_start_threshold, DEFAULT_RUN_START_THRESHOLD),
      SHAKE_START_THRESHOLD |->
          OrDefault(params.shake_start_threshold, DEFAULT_SHAKE_START_THRESHOLD),
      unit |-> LcmUpTo(W),
      filterBuffer |-> [i \in 1..W |-> 0],
      filterIndex |-> 0,
      filterSum |-> 0,
      filterCount |-> 0,
      accBuffer |-> <<>>,
      gyroBuffer |-> <<>>,
      peaks |-> <<>>,
      valleys |-> <<>>,
      step_count |-> 0,
      running_steps |-> 0,
      leg_shake_removed |-> 0,
      sample_index |-> 0 ]

\* a filter that never takes the overwritten value out of the sum
filterProcessKeepAll(sc, input) ==
    LET W == sc.FILTER_WINDOW_SIZE
        slot == sc.filterIndex + 1 IN
    [sc EXCEPT !.filterSum = sc.filterSum + input,
               !.filterBuffer = [sc.filterBuffer EXCEPT ![slot] = input],
               !.filterIndex = (sc.filterIndex + 1) % W,
               !.filterCount = IF sc.filterCount < W THEN sc.filterCount + 1
                               ELSE sc.filterCount]

\* filterProcess(input): the counter after the call; the value returned is
\* FilterOut of that counter.
filterProcess(sc, input) ==
    LET W == sc.FILTER_WINDOW_SIZE
        slot == sc.filterIndex + 1 IN
    [sc EXCEPT !.filterSum = sc.filterSum - sc.filterBuffer[slot] + input,
               !.filterBuffer = [sc.filterBuffer EXCEPT ![slot] = input],
               !.filterIndex = (sc.filterIndex + 1) % W,
               !.filterCount = IF sc.filterCount < W THEN sc.filterCount + 1
                               ELSE sc.filterCount]

\* filterSum / filterCount, in units of 1/unit
FilterOut(sc) == (sc.filterSum * sc.unit) \div sc.filterCount

\* Math.sqrt(ax*ax + ay*ay + az*az); the model's inputs make the radicand a
\* perfect square
calculateCombinedAcceleration(ax, ay, az) == IsqrtFrom(ax * ax + ay * ay + az * az, 0)

\* the peak test of detectPeaksAndValleys; acc is accBuffer with the
\* candidate already pushed, so the candidate is its last entry
IsPeak(sc, acc, centerVal) ==
    LET centerIdx == Len(acc) IN
    /\ centerVal > sc.PEAK_THRESHOLD * sc.unit
    /\ \A i \in 1..sc.PEAK_WINDOW_N :
          (centerIdx - i >= 1) => ~(acc[centerIdx - i] >= centerVal)

\* the valley test of detectPeaksAndValleys
IsValley(sc, acc, centerVal) ==
    LET centerIdx == Len(acc) IN
    \A i \in 1..VALLEY_WINDOW_N :
       /\ (centerIdx - i >= 1) => ~(acc[centerIdx - i] <= centerVal)
       /\ (centerIdx + i <= Len(acc)) => ~(acc[centerIdx + i] <= centerVal)

detectPeaksAndValleys(sc, filteredAcc, index) ==
    IF Len(sc.accBuffer) < sc.PEAK_WINDOW_N * 2 + 1 THEN sc
    ELSE [sc EXCEPT
            !.peaks = IF IsPeak(sc, sc.accBuffer, filteredAcc)
                      THEN Append(sc.peaks, [value |-> filteredAcc, index |-> index])
                      ELSE sc.peaks,
            !.valleys = IF IsValley(sc, sc.accBuffer, filteredAcc)
                        THEN Append(sc.valleys, [value |-> filteredAcc, index |-> index])
                        ELSE sc.valleys]

\* Indices are 1-based here (the code's i is this i - 1); 0 stands for -1.
Least(S) == IF S = {} THEN 0 ELSE CHOOSE x \in S : \A y \in S : x <= y

RunStart(sc) ==
    Least({i \in 1..Len(sc.peaks) : sc.peaks[i].value > sc.RUN_START_THRESHOLD * sc.unit})

RunEnd(sc) ==
    LET rs == RunStart(sc) IN
    IF rs = 0 THEN 0
    ELSE Least({i \in rs..Len(sc.peaks) :
                   \/ sc.peaks[i].value < RUN_END_THRESHOLD_HIGH * sc.unit
                   \/ sc.peaks[i].value < RUN_END_THRESHOLD_LOW * sc.unit})

IsRunning(sc, rs, re) ==
    \A i \in rs..(re - 1) :
       (i <= Len(sc.valleys)) =>
          ~((sc.peaks[i].value - sc.valleys[i].value)
               >= sc.peaks[i].value - RUN_PEAK_VALLEY_DIFF * sc.unit)

RunSteps(sc, rs, re) ==
    MathRound((sc.peaks[re].index - sc.peaks[rs].index) * RUN_SCALING_NUM,
              BASELINE_STEP_SAMPLES * RUN_SCALING_DEN)

ZeroPeaks(peaks, from, to) ==
    [i \in 1..Len(peaks) |->
        IF from <= i /\ i <= to THEN [peaks[i] EXCEPT !.value = 0] ELSE peaks[i]]

\* a running detection that adds the run's steps to step_count as well
detectAndCountRunningIntoSteps(sc) ==
    LET rs == RunStart(sc)
        re == RunEnd(sc) IN
    IF rs # 0 /\ re # 0 /\ IsRunning(sc, rs, re)
    THEN [sc EXCEPT !.running_steps = sc.running_steps + RunSteps(sc, rs, re),
                    !.step_count = sc.step_count + RunSteps(sc, rs, re),
                    !.peaks = ZeroPeaks(sc.peaks, rs, re)]
    ELSE sc

detectAndCountRunning(sc) ==
    LET rs == RunStart(sc)
        re == RunEnd(sc) IN
    IF rs # 0 /\ re # 0 /\ IsRunning(sc, rs, re)
    THEN [sc EXCEPT !.running_steps = sc.running_steps + RunSteps(sc, rs, re),
                    !.peaks = ZeroPeaks(sc.peaks, rs, re)]
    ELSE sc

\* calculateVariance(buffer) > threshold, for an integer buffer:
\* sum((v - mean)^2) / n > t  <=>  n * sum(v^2) - (sum v)^2 > t * n^2
VarianceExceeds(buffer, t) ==
    LET n == Len(buffer)
        s == SeqSum(buffer)
        q == SeqSum([i \in 1..n |-> buffer[i] * buffer[i]]) IN
    IF n < 2 THEN 0 > t ELSE n * q - s * s > t * n * n

\* the span test of detectAndRemoveLegShaking for the span [ss, se)
IsShaking(sc, peaks, ss, se) ==
    /\ \A j \in ss..(se - 1) : ~(peaks[j].value > SHAKE_REGIONAL_PEAK_MAX * sc.unit)
    /\ \A j \in ss..(se - 1) :
          (j <= Len(sc.valleys)) =>
             ~((peaks[j].value - sc.valleys[j].value)
                  >= peaks[j].value - SHAKE_PEAK_VALLEY_DIFF * sc.unit)
    /\ (Len(sc.gyroBuffer) > GYRO_MIN_SAMPLES) =>
          ~VarianceExceeds(sc.gyroBuffer, SHAKE_VARIANCE_THRESHOLD)

\* the loop of detectAndRemoveLegShaking from index i on; st carries the
\* loop's variables (peaks, shakeStart, leg_shake_removed)
RECURSIVE ShakeLoop(_, _, _)
ShakeLoop(sc, st, i) ==
    IF i > Len(st.peaks) THEN st
    ELSE IF st.peaks[i].value = 0 THEN ShakeLoop(sc, st, i + 1)
    ELSE
      LET v == st.peaks[i].value
          ss == IF v > sc.SHAKE_START_THRESHOLD * sc.unit /\ st.shakeStart = 0
                THEN i ELSE st.shakeStart IN
      IF ss # 0 /\ v < sc.SHAKE_START_THRESHOLD * sc.unit
      THEN LET shaking == IsShaking(sc, st.peaks, ss, i) IN
           ShakeLoop(sc,
                     [peaks |-> IF shaking THEN ZeroPeaks(st.peaks, ss, i - 1)
                                ELSE st.peaks,
                      shakeStart |-> 0,
                      removed |-> IF shaking THEN st.removed + (i - ss)
                                  ELSE st.removed],
                     i + 1)
      ELSE ShakeLoop(sc, [st EXCEPT !.shakeStart = ss], i + 1)

detectAndRemoveLegShaking(sc) ==
    LET st == ShakeLoop(sc, [peaks |-> sc.peaks, shakeStart |-> 0, removed |-> 0], 1) IN
    [sc EXCEPT !.peaks = st.peaks,
               !.leg_shake_removed = sc.leg_shake_removed + st.removed]

countNormalSteps(sc) ==
    Cardinality({i \in 1..Len(sc.peaks) : sc.peaks[i].value > sc.PEAK_THRESHOLD * sc.unit})

processAccumulatedData(sc) ==
    IF Len(sc.peaks) = 0 THEN sc
    ELSE LET s1 == detectAndCountRunning(sc)
             s2 == detectAndRemoveLegShaking(s1) IN
         [s2 EXCEPT !.step_count = s2.step_count + countNormalSteps(s2),
                    !.peaks = <<>>,
                    !.valleys = <<>>]

\* lines 290-302: filter the sample, push it, test it, count it
detectSample(sc, sample) ==
    LET combinedAcc == calculateCombinedAcceleration(sample.ax, sample.ay, sample.az)
        s1 == filterProcess(sc, combinedAcc)
        filteredAcc == FilterOut(s1)
        s2 == [s1 EXCEPT !.accBuffer = Append(s1.accBuffer, filteredAcc),
                         !.gyroBuffer = Append(s1.gyroBuffer, sample.gx)]
        s3 == detectPeaksAndValleys(s2, filteredAcc, s2.sample_index) IN
    [s3 EXCEPT !.sample_index = s3.sample_index + 1]

\* line 305: the buffer has reached the window size
WindowFull(sc) == Len(sc.accBuffer) >= sc.PROCESS_WINDOW_SAMPLES

\* the body of processChunk's loop for one sample
processSample(sc, sample) ==
    LET s4 == detectSample(sc, sample) IN
    IF WindowFull(s4)
    THEN LET s5 == processAccumulatedData(s4) IN
         [s5 EXCEPT !.accBuffer = SeqLast(s5.accBuffer, s5.PEAK_WINDOW_N),
                    !.gyroBuffer = SeqLast(s5.gyroBuffer, s5.PEAK_WINDOW_N)]
    ELSE s4

RECURSIVE processChunk(_, _)
processChunk(sc, samples) ==
    IF samples = <<>> THEN sc
    ELSE processChunk(processSample(sc, Head(samples)), Tail(samples))


(***************************************************************************)
(* Inputs.  The device emits the chunks of ChunkAccel in order: chunk k    *)
(* carries consecutive sample numbers, accelerations on the x axis, and    *)
(* (the first chunk only) a real_time/start_sample reference.  A request   *)
(* may carry any of them, in any order and any number of times, or a chunk *)
(* object without imu_data.                                                *)
(***************************************************************************)
MaxOps == 2
DeepOps == 3
MaxSessions == 2

Slots == {1, 2}

ChunkAccel == << <<0, 30, 30, 0>>, <<0, 0, 0, 0>> >>

ChunkIds == 1..Len(ChunkAccel)

RECURSIVE FirstSample(_)
FirstSample(k) == IF k = 1 THEN 1 ELSE FirstSample(k - 1) + Len(ChunkAccel[k - 1])

\* the chunk object of a request body (imu_data shown decoded)
ChunkObj(k, has_imu) ==
    [ has_imu |-> has_imu,
      samples |-> [j \in 1..Len(ChunkAccel[k]) |->
                     [sample_number |-> FirstSample(k) + j - 1,
                      timestamp_ms_dev |-> (FirstSample(k) + j - 1) * 10,
                      ax |-> ChunkAccel[k][j], ay |-> 0, az |-> 0,
                      gx |-> ChunkAccel[k][j] \div 10]],
      real_time |-> IF k = 1 THEN <<"1970-01-01T00:00:01.000Z">> ELSE Null,
      start_sample |-> IF k = 1 THEN <<FirstSample(k)>> ELSE Null ]

SampleNumbers == 1..(FirstSample(Len(ChunkAccel)) + Len(ChunkAccel[Len(ChunkAccel)]) - 1)

\* session ids '111', '222', ... (String(k).repeat(3))
SessionIdOf(k) == 111 * k

\* the ids crypto.randomBytes(12).toString('hex') can give once '111'..'999'
\* are all used: one for each session that can be created
HexIds == {1000 + k : k \in 1..MaxSessions}

SessionIds == {SessionIdOf(k) : k \in 1..9} \cup HexIds

\* request bodies of POST /step-counter-params: the fields a body carries
SmallWindowBody == [NoParams EXCEPT !.peak_window_n = <<1>>,
                                   !.filter_window_size = <<2>>,
                                   !.process_window_samples = <<4>>]

ThresholdBody == [NoParams EXCEPT !.peak_threshold = <<25>>]

ParamBodies == {SmallWindowBody, ThresholdBody}

(***************************************************************************)
(* decodeChunkJson on the bytes of a request body.  A base64 string is the *)
(* sequence of its characters' 6-bit values, Pad standing for '='.  A      *)
(* float is read from its IEEE-754 single-precision bytes; the value is    *)
(* exact for the integer-valued floats of the inputs.                      *)
(***************************************************************************)
BYTES_PER_SAMPLE == 32

Pad == 64

RECURSIVE Pow2(_)
Pow2(n) == IF n = 0 THEN 1 ELSE 2 * Pow2(n - 1)

\* the characters before the first '='
DataChars(chars) ==
    LET pads == {i \in 1..Len(chars) : chars[i] = Pad} IN
    IF pads = {} THEN chars
    ELSE SubSeq(chars, 1, (CHOOSE i \in pads : \A j \in pads : i <= j) - 1)

\* Buffer.from(str, 'base64') on the data characters: 4 characters give 3
\* bytes, 3 give 2, 2 give 1, a single one gives none
Base64Bytes(d) ==
    [ j \in 1..((Len(d) * 3) \div 4) |->
        LET g == 4 * ((j - 1) \div 3) IN
        CASE (j - 1) % 3 = 0 -> d[g + 1] * 4 + d[g + 2] \div 16
          [] (j - 1) % 3 = 1 -> (d[g + 2] % 16) * 16 + d[g + 3] \div 4
          [] (j - 1) % 3 = 2 -> (d[g + 3] % 4) * 64 + d[g + 4] ]

BufferFrom(chars) == Base64Bytes(DataChars(chars))

\* buf.readUInt32BE: the most significant byte first
readUInt32BE(buf, off) ==
    buf[off + 4] + 256 * buf[off + 3] + 65536 * buf[off + 2] + 16777216 * buf[off + 1]

\* buf.readUInt32LE (off counts from 0)
readUInt32LE(buf, off) ==
    buf[off + 1] + 256 * buf[off + 2] + 65536 * buf[off + 3] + 16777216 * buf[off + 4]

\* buf.readFloatLE: sign, 8 exponent bits, 23 fraction bits
readFloatLE(buf, off) ==
    LET sign == buf[off + 4] \div 128
        e == (buf[off + 4] % 128) * 2 + buf[off + 3] \div 128
        m == (buf[off + 3] % 128) * 65536 + buf[off + 2] * 256 + buf[off + 1]
        mag == IF e = 0 THEN 0
               ELSE IF e >= 150 THEN (8388608 + m) * Pow2(e - 150)
               ELSE (8388608 + m) \div Pow2(150 - e) IN
    IF sign = 1 THEN 0 - mag ELSE mag

\* lines 452-469: the i-th sample (i counts from 0)
ReadSample(buf, i) ==
    LET off == i * BYTES_PER_SAMPLE IN
    [ sample_number |-> readUInt32LE(buf, off),
      timestamp_ms_dev |-> readUInt32LE(buf, off + 4),
      ax |-> readFloatLE(buf, off + 8), ay |-> readFloatLE(buf, off + 12),
      az |-> readFloatLE(buf, off + 16), gx |-> readFloatLE(buf, off + 20),
      gy |-> readFloatLE(buf, off + 24), gz |-> readFloatLE(buf, off + 28) ]

\* line 448: Math.floor(buf.length / BYTES_PER_SAMPLE)
NumSamples(buf) == Len(buf) \div BYTES_PER_SAMPLE

\* what a call gives: a value, or the message of the Error it throws
Returned(v) == [threw |-> FALSE, error |-> "", value |-> v]

Threw(error) == [threw |-> TRUE, error |-> error, value |-> Null]

\* a check that also takes a payload without one whole record for missing
MissingImuOrShort(chunkObj) ==
    \/ chunkObj = Null
    \/ chunkObj[1].imu_data = Null
    \/ /\ chunkObj[1].imu_data[1].type = "string"
       /\ Len(BufferFrom(chunkObj[1].imu_data[1].chars)) < BYTES_PER_SAMPLE

\* !chunkObj || !chunkObj.imu_data: no object, no imu_data, or imu_data ''
MissingImu(chunkObj) ==
    \/ chunkObj = Null
    \/ chunkObj[1].imu_data = Null
    \/ chunkObj[1].imu_data[1] = [type |-> "string", chars |-> <<>>]

\* decodeChunkJson.  A chunk object is Null or <<[imu_data, real_time,
\* start_sample]>>, imu_data Null or <<[type, chars]>>; Buffer.from throws a
\* TypeError on a number.  real_time is Null or <<string>>, start_sample is
\* [kind, n] with kind "undefined", "null" or "number": Number(null) is 0.
decodeChunkJson(chunkObj) ==
    IF MissingImu(chunkObj) THEN Threw("chunk JSON missing imu_data")
    ELSE IF chunkObj[1].imu_data[1].type # "string" THEN Threw("TypeError")
    ELSE LET buf == BufferFrom(chunkObj[1].imu_data[1].chars)
             numSamples == NumSamples(buf) IN
         Returned(
           [ samples |-> [i \in 1..numSamples |-> ReadSample(buf, i - 1)],
             real_time |-> IF chunkObj[1].real_time = <<"">> THEN Null
                           ELSE chunkObj[1].real_time,
             start_sample |-> IF chunkObj[1].start_sample.kind = "undefined" THEN Null
                              ELSE IF chunkObj[1].start_sample.kind = "null" THEN <<0>>
                              ELSE <<chunkObj[1].start_sample.n>> ])

(***************************************************************************)
(* decodeChunkJson / mapSamplesToTimestamps                                *)
(***************************************************************************)
\* decodeChunkJson throws when imu_data is missing
DecodeThrows(chunkObj) == ~chunkObj.has_imu

NOMINAL_PERIOD_MS == 10

\* Date.parse on the strings of the inputs: <<epoch ms>>, or Null for NaN
KnownDates == [t \in {"1970-01-01T00:00:01.000Z", "1970-01-01T00:00:02.000Z"} |->
                 IF t = "1970-01-01T00:00:01.000Z" THEN 1000 ELSE 2000]

DateParse(text) == IF text \in DOMAIN KnownDates THEN <<KnownDates[text]>> ELSE Null

\* the mapping mapSamplesToTimestamps derives from the chunk, or Null
ChunkMapping(decoded) ==
    IF decoded.real_time # Null /\ decoded.start_sample # Null
            /\ DateParse(decoded.real_time[1]) # Null
    THEN << [start_sample |-> decoded.start_sample[1],
             real_time_epoch_ms |-> DateParse(decoded.real_time[1])[1],
             nominalPeriodMs |-> NOMINAL_PERIOD_MS] >>
    ELSE Null

MapSample(s, useMapping) ==
    [ ts |-> IF useMapping # Null
             THEN useMapping[1].real_time_epoch_ms
                    + (s.sample_number - useMapping[1].start_sample)
                        * useMapping[1].nominalPeriodMs
             ELSE s.timestamp_ms_dev,
      ax |-> s.ax, ay |-> s.ay, az |-> s.az, gx |-> s.gx,
      sample_number |-> s.sample_number ]

\* a mapper that prefers the collar's persisted mapping to the chunk's own
mapSamplesToTimestampsPersistedFirst(decoded, persistedMapping) ==
    LET mapping == ChunkMapping(decoded)
        useMapping == IF persistedMapping # Null THEN persistedMapping ELSE mapping IN
    [ mapped |-> [i \in 1..Len(decoded.samples) |-> MapSample(decoded.samples[i], useMapping)],
      mapping |-> mapping ]

\* lines 488-522
mapSamplesToTimestamps(decoded, persistedMapping) ==
    LET mapping == ChunkMapping(decoded)
        useMapping == IF mapping # Null THEN mapping ELSE persistedMapping IN
    [ mapped |-> [i \in 1..Len(decoded.samples) |-> MapSample(decoded.samples[i], useMapping)],
      mapping |-> mapping ]

(***************************************************************************)
(* Payloads as a collar builds them: the records of lines 452-459 laid out *)
(* little-endian, followed by the bytes of an incomplete record, in base64 *)
(***************************************************************************)
MaxRecords == 2

\* a u32 as the collar writes it, least significant byte first
U32Bytes(n) == << n % 256, (n \div 256) % 256, (n \div 65536) % 256, n \div 16777216 >>

\* the IEEE-754 single of the values the inputs use, least significant byte first
F32Bytes(x) ==
    CASE x = 0 -> <<0, 0, 0, 0>>
      [] x = 3 -> <<0, 0, 64, 64>>
      [] x = 30 -> <<0, 0, 240, 65>>
      [] x = 0 - 30 -> <<0, 0, 240, 193>>

SampleBytes(s) ==
    U32Bytes(s.sample_number) \o U32Bytes(s.timestamp_ms_dev)
      \o F32Bytes(s.ax) \o F32Bytes(s.ay) \o F32Bytes(s.az)
      \o F32Bytes(s.gx) \o F32Bytes(s.gy) \o F32Bytes(s.gz)

RECURSIVE RecordBytes(_)
RecordBytes(samples) ==
    IF samples = <<>> THEN <<>>
    ELSE SampleBytes(Head(samples)) \o RecordBytes(Tail(samples))

\* base64 of a byte sequence, padded
Base64Encode(b) ==
    [ c \in 1..(4 * ((Len(b) + 2) \div 3)) |->
        LET g == 3 * ((c - 1) \div 4)
            byte(i) == IF g + i <= Len(b) THEN b[g + i] ELSE 0 IN
        CASE (c - 1) % 4 = 0 -> byte(1) \div 4
          [] (c - 1) % 4 = 1 -> (byte(1) % 4) * 16 + byte(2) \div 16
          [] (c - 1) % 4 = 2 -> IF g + 2 > Len(b) THEN Pad
                                ELSE (byte(2) % 16) * 4 + byte(3) \div 64
          [] (c - 1) % 4 = 3 -> IF g + 3 > Len(b) THEN Pad ELSE byte(3) % 64 ]

\* the records a payload is made of
WireSamples ==
    { [sample_number |-> 1, timestamp_ms_dev |-> 10,
       ax |-> 0, ay |-> 0, az |-> 0, gx |-> 0, gy |-> 0, gz |-> 0],
      [sample_number |-> 2, timestamp_ms_dev |-> 20,
       ax |-> 3, ay |-> 0, az |-> 30, gx |-> 0 - 30, gy |-> 3, gz |-> 0],
      [sample_number |-> 300, timestamp_ms_dev |-> 70000,
       ax |-> 30, ay |-> 0 - 30, az |-> 3, gx |-> 3, gy |-> 0, gz |-> 30] }

RECURSIVE SeqsUpTo(_, _)
SeqsUpTo(S, n) ==
    IF n = 0 THEN { <<>> }
    ELSE LET shorter == SeqsUpTo(S, n - 1) IN
         shorter \cup { Append(q, x) : q \in shorter, x \in S }

\* the lengths of the incomplete record that may follow the whole ones
TailLengths == {0, 1, BYTES_PER_SAMPLE - 1}

TailBytes(r) == [i \in 1..r |-> 255]

\* real_time of a chunk object with the epoch Date.parse gives for it
RealTimes ==
    { [text |-> Null, epoch |-> Null],
      [text |-> <<"yesterday noon">>, epoch |-> Null],
      [text |-> <<"1970-01-01T00:00:01.000Z">>, epoch |-> <<1000>>],
      [text |-> <<"1970-01-01T00:00:02.000Z">>, epoch |-> <<2000>>] }

StartSamples == { [kind |-> "undefined", n |-> 0], [kind |-> "null", n |-> 0],
                  [kind |-> "number", n |-> 300] }

ImuString(chars) == << [type |-> "string", chars |-> chars] >>

\* chunk objects with a payload of whole records and an incomplete one
WireChunks ==
    { [ chunkObj |-> << [ imu_data |-> ImuString(Base64Encode(RecordBytes(sent) \o TailBytes(r))),
                          real_time |-> rt.text, start_sample |-> ss ] >>,
        sent |-> sent, tail |-> r ] :
        sent \in SeqsUpTo(WireSamples, MaxRecords), r \in TailLengths,
        rt \in RealTimes, ss \in StartSamples }

\* no chunk object, no imu_data, imu_data '', 'A', '====' and 5
OddChunks ==
    { [chunkObj |-> Null, sent |-> <<>>, tail |-> 0] }
      \cup { [ chunkObj |-> << [ imu_data |-> imu, real_time |-> Null,
                                 start_sample |-> [kind |-> "undefined", n |-> 0] ] >>,
               sent |-> <<>>, tail |-> 0 ] :
             imu \in { Null, ImuString(<<>>), ImuString(<<0>>),
                       ImuString(<<Pad, Pad, Pad, Pad>>),
                       << [type |-> "number", chars |-> <<>>] >> } }

DecodeInputs == WireChunks \cup OddChunks

\* arguments of mapSamplesToTimestamps: what decodeChunkJson returns (its
\* start_sample is null or a number) and the collar's mapping_json
MapInputs ==
    { [ decoded |-> [samples |-> samples, real_time |-> rt.text, start_sample |-> ss],
        epoch |-> rt.epoch, persisted |-> pm ] :
        samples \in SeqsUpTo(WireSamples, MaxRecords), rt \in RealTimes,
        ss \in {Null, <<0>>, <<1>>, <<300>>},
        pm \in {Null, << [start_sample |-> 1, real_time_epoch_ms |-> 500,
                          nominalPeriodMs |-> NOMINAL_PERIOD_MS] >>} }


(***************************************************************************)
(* State                                                                   *)
(***************************************************************************)
VARIABLES
    collar_sessions,           \* table collar_sessions of the collar: rows [session_id, active]
    mapping_json,              \* collars.mapping_json: Null or <<mapping>>
    output_metric,             \* collars.output_metric.sessions: session id -> Null or <<steps>>
    collar_chunks,             \* table collar_chunks: rows [session_id, chunk, steps_in_chunk, cumulative_steps]
    step_counter_params,       \* table step_counter_params: session id -> Null or <<row>>
    heap,                      \* the StepCounter objects constructed since the process started
    stepCounterBySession,      \* Map: session id -> index into heap, 0 when absent
    lastChunkSamplesBySession, \* Map: session id -> Null or <<samples>>
    mappingByCollar,           \* Map entry of the collar: Null or <<mapping>>
    req,                       \* the requests in flight: slot -> locals and position
    ops,                       \* number of requests received so far
    resp,                      \* the response sent last
    lastReported,              \* history: session id -> cumulative_steps of its last 200 response, -1 if none
    fedLog,                    \* history: session id -> the chunks whose samples reached processChunk
    fedCount,                  \* history: session id -> sample number -> times fed to a StepCounter
    discardFloor,              \* history: session id -> lastReported when the maps were last discarded, -1 once the session has reported again
    instances,                 \* history: session id -> StepCounters constructed for it since the process started
    storageFailed,             \* history: a database call of a request has failed
    call                       \* a call of decodeChunkJson or mapSamplesToTimestamps on its own: arguments and result

dbVars == <<collar_sessions, mapping_json, output_metric, collar_chunks, step_counter_params>>
memVars == <<heap, stepCounterBySession, lastChunkSamplesBySession, mappingByCollar>>
histVars == <<lastReported, fedLog, fedCount, discardFloor, instances, storageFailed, call>>
vars == <<dbVars, memVars, req, ops, resp, histVars>>

Idle == [ pc |-> "idle", kind |-> "none", new_session |-> FALSE, chunk |-> 0,
          has_imu |-> FALSE, session_id |-> 0, persistedMapping |-> Null,
          mapped |-> <<>>, mapping |-> Null, params |-> NoParams, total |-> -1, sc |-> 0,
          before |-> 0, steps_in_chunk |-> 0, cumulative_steps |-> 0,
          body |-> NoParams, deactivate |-> {}, created |-> FALSE,
          params_then |-> Null, mapping_then |-> Null ]

NoCall == [ fn |-> "none", chunkObj |-> Null, sent |-> <<>>, tail |-> 0, decoded |-> Null,
            epoch |-> Null, persisted |-> Null, result |-> Null,
            params |-> NoParams, sc |-> Null, fed |-> <<>>, flt |-> <<>>, window |-> Null,
            before |-> 0, metric |-> Null, old |-> Null ]

NoResp == [ kind |-> "none", status |-> 0, error |-> "", session_id |-> 0,
            steps_in_chunk |-> 0, cumulative_steps |-> 0, prev_reported |-> -1,
            floor |-> -1 ]

\* the params row POST /step-counter-params stores for a body: a field the
\* body omits takes the destructuring default
StoredParams(body) ==
    [ peak_threshold |-> IF body.peak_threshold = Null
                         THEN <<DEFAULT_PEAK_THRESHOLD>> ELSE body.peak_threshold,
      peak_window_n |-> IF body.peak_window_n = Null
                        THEN <<DEFAULT_PEAK_WINDOW_N>> ELSE body.peak_window_n,
      filter_window_size |-> IF body.filter_window_size = Null
                             THEN <<DEFAULT_FILTER_WINDOW_SIZE>> ELSE body.filter_window_size,
      process_window_samples |-> IF body.process_window_samples = Null
                                 THEN <<DEFAULT_PROCESS_WINDOW_SAMPLES>>
                                 ELSE body.process_window_samples,
      run_start_threshold |-> IF body.run_start_threshold = Null
                              THEN <<DEFAULT_RUN_START_THRESHOLD>>
                              ELSE body.run_start_threshold,
      shake_start_threshold |-> IF body.shake_start_threshold = Null
                                THEN <<DEFAULT_SHAKE_START_THRESHOLD>>
                                ELSE body.shake_start_threshold ]

\* a mapping persisted by a chunk of an earlier life of the process
EarlierMapping == [start_sample |-> 1, real_time_epoch_ms |-> 500,
                   nominalPeriodMs |-> NOMINAL_PERIOD_MS]

\* The process starts with empty maps.  The database outlives the process:
\* the collar exists and has no session yet, or it has session '111' active
\* with a stored parameter row and no chunk, or it has had the sessions
\* '111'..'999', the last one active, and a persisted mapping.
InitDb(db) ==
    /\ collar_sessions =
          CASE db = "no_session" -> <<>>
            [] db = "session_params" ->
                 << [session_id |-> SessionIdOf(1), active |-> TRUE] >>
            [] db = "ids_used" ->
                 [k \in 1..9 |-> [session_id |-> SessionIdOf(k), active |-> k = 9]]
    /\ step_counter_params =
          [s \in SessionIds |->
              IF db = "session_params" /\ s = SessionIdOf(1)
              THEN << StoredParams(SmallWindowBody) >> ELSE Null]
    /\ mapping_json = IF db = "ids_used" THEN <<EarlierMapping>> ELSE Null
    /\ output_metric = [s \in SessionIds |-> Null]
    /\ collar_chunks = <<>>
    /\ heap = <<>>
    /\ stepCounterBySession = [s \in SessionIds |-> 0]
    /\ lastChunkSamplesBySession = [s \in SessionIds |-> Null]
    /\ mappingByCollar = Null
    /\ req = [r \in Slots |-> Idle]
    /\ ops = 0
    /\ resp = NoResp
    /\ lastReported = [s \in SessionIds |-> -1]
    /\ fedLog = [s \in SessionIds |-> <<>>]
    /\ fedCount = [s \in SessionIds |-> [n \in SampleNumbers |-> 0]]
    /\ instances = [s \in SessionIds |-> 0]
    /\ discardFloor = [s \in SessionIds |-> -1]
    /\ storageFailed = FALSE

Init ==
    /\ \E db \in {"no_session", "session_params", "ids_used"} : InitDb(db)
    /\ call = NoCall

(***************************************************************************)
(* Storage reads                                                           *)
(***************************************************************************)
\* a seed taken from all chunk rows of the collar, whatever their session
getSessionStepTotalOfCollar(rows, session_id) ==
    SeqSum([i \in 1..Len(rows) |-> rows[i].steps_in_chunk])

\* a seed that ignores the persisted rows: the counter starts from zero
getSessionStepTotalFromZero(rows, session_id) ==
    Len(SelectSeq(rows, LAMBDA row : FALSE))

\* getSessionStepTotal: SUM(steps_in_chunk) over the session's chunk rows
RECURSIVE SumSteps(_, _)
SumSteps(rows, session_id) ==
    IF rows = <<>> THEN 0
    ELSE (IF Head(rows).session_id = session_id THEN Head(rows).steps_in_chunk ELSE 0)
           + SumSteps(Tail(rows), session_id)

getSessionStepTotal(rows, session_id) == SumSteps(rows, session_id)

\* getStepCounterParams: the stored row, or {}
getStepCounterParams(table, session_id) ==
    IF table[session_id] # Null THEN table[session_id][1] ELSE NoParams

\* getActiveSessionForCollar: the rows with active = TRUE (LIMIT 1 picks one)
ActiveSessions(rows) == {rows[i].session_id : i \in {j \in 1..Len(rows) : rows[j].active}}

\* validateCompositeSession
validateCompositeSession(rows, session_id) ==
    \E i \in 1..Len(rows) : rows[i].session_id = session_id

\* the id generateAndInsertSession picks: the first of '111'..'999' not
\* used, or a random one (24 random hex digits: an id no row has yet)
PickSessionId(rows) ==
    LET used == {rows[i].session_id : i \in 1..Len(rows)}
        free == {k \in 1..9 : SessionIdOf(k) \notin used} IN
    IF free = {} THEN HexIds \ used ELSE {SessionIdOf(Least(free))}


(***************************************************************************)
(* PUT /chunks: the synchronous stretches between two awaits, as functions *)
(* of the request's locals q and the in-memory maps m.  An outcome is the  *)
(* locals and maps afterwards, and the response status (0: still running). *)
(***************************************************************************)
Mem == [ heap |-> heap, cache |-> stepCounterBySession,
         last |-> lastChunkSamplesBySession,
         fedLog |-> fedLog, fedCount |-> fedCount, instances |-> instances ]

Running(q, m) == [q |-> q, m |-> m, status |-> 0, error |-> ""]

Replied(q, m, status, error) == [q |-> q, m |-> m, status |-> status, error |-> error]

\* a handler that feeds a chunk's own samples only
OwnSamplesOnly(last, session_id, mapped) == mapped

\* lines 1008-1034: feed the previous chunk's samples followed by this
\* chunk's, replace the buffer, build outputMetric
CombinedSamples(last, session_id, mapped) ==
    IF last[session_id] # Null THEN last[session_id][1] \o mapped ELSE mapped

\* a handler that reports the counter's total as the chunk's steps
ProcessStepTotal(q, session_id, idx, m) ==
    LET combinedSamples == CombinedSamples(m.last, session_id, q.mapped)
        before == m.heap[idx].step_count
        sc == processChunk(m.heap[idx], combinedSamples)
        after == sc.step_count IN
    Running([q EXCEPT !.pc = "insert", !.sc = idx, !.before = before,
                      !.steps_in_chunk = after,
                      !.cumulative_steps = after],
            [m EXCEPT !.heap = [m.heap EXCEPT ![idx] = sc],
                      !.last = [m.last EXCEPT ![session_id] = <<q.mapped>>],
                      !.fedLog = [m.fedLog EXCEPT ![session_id] = Append(@, q.chunk)],
                      !.fedCount = [m.fedCount EXCEPT ![session_id] =
                          [n \in SampleNumbers |->
                              @[n] + Cardinality({i \in 1..Len(combinedSamples) :
                                          combinedSamples[i].sample_number = n})]]])

ProcessStep(q, session_id, idx, m) ==
    LET combinedSamples == CombinedSamples(m.last, session_id, q.mapped)
        before == m.heap[idx].step_count
        sc == processChunk(m.heap[idx], combinedSamples)
        after == sc.step_count IN
    Running([q EXCEPT !.pc = "insert", !.sc = idx, !.before = before,
                      !.steps_in_chunk = after - before,
                      !.cumulative_steps = after],
            [m EXCEPT !.heap = [m.heap EXCEPT ![idx] = sc],
                      !.last = [m.last EXCEPT ![session_id] = <<q.mapped>>],
                      !.fedLog = [m.fedLog EXCEPT ![session_id] = Append(@, q.chunk)],
                      !.fedCount = [m.fedCount EXCEPT ![session_id] =
                          [n \in SampleNumbers |->
                              @[n] + Cardinality({i \in 1..Len(combinedSamples) :
                                          combinedSamples[i].sample_number = n})]]])

\* getOrInitStepCounter up to its first await: a cached counter is returned
\* at once and the chunk is processed in the same stretch
ResolveCounter(q, session_id, m) ==
    IF m.cache[session_id] # 0
    THEN ProcessStep(q, session_id, m.cache[session_id], m)
    ELSE Running([q EXCEPT !.pc = "params"], m)

\* getOrInitStepCounter after its last await: construct, seed, cache
CreateCounter(q, session_id, total, m) ==
    LET sc == [NewStepCounter(q.params) EXCEPT !.step_count = total]
        idx == Len(m.heap) + 1 IN
    ProcessStep([q EXCEPT !.total = total], session_id, idx,
                [m EXCEPT !.heap = Append(m.heap, sc),
                          !.cache = [m.cache EXCEPT ![session_id] = idx],
                          !.instances = [m.instances EXCEPT ![session_id] = @ + 1]])

\* a handler that takes session '111' when the collar has no active session
\* instead of rejecting the request
AfterSessionImplicit(q0, session_id, m) ==
    LET sid == IF session_id = 0 THEN SessionIdOf(1) ELSE session_id
        q == [q0 EXCEPT !.session_id = sid] IN
    IF DecodeThrows(ChunkObj(q.chunk, q.has_imu))
    THEN Replied(q, m, 500, "chunk JSON missing imu_data")
    ELSE LET mp == mapSamplesToTimestamps(ChunkObj(q.chunk, q.has_imu), q.persistedMapping) IN
         ResolveCounter([q EXCEPT !.mapped = mp.mapped, !.mapping = mp.mapping], sid, m)

\* lines 982-1002 once the session is known (0: none)
AfterSession(q0, session_id, m) ==
    LET q == [q0 EXCEPT !.session_id = session_id] IN
    IF session_id = 0
    THEN Replied(q, m, 400, "No active session")
    ELSE IF DecodeThrows(ChunkObj(q.chunk, q.has_imu))
    THEN Replied(q, m, 500, "chunk JSON missing imu_data")
    ELSE LET mp == mapSamplesToTimestamps(ChunkObj(q.chunk, q.has_imu), q.persistedMapping)
             q1 == [q EXCEPT !.mapped = mp.mapped, !.mapping = mp.mapping] IN
         IF mp.mapping # Null
         THEN Running([q1 EXCEPT !.pc = "mapping"], m)
         ELSE ResolveCounter(q1, session_id, m)

MkResp(q, status, error) ==
    [ kind |-> q.kind, status |-> status, error |-> error,
      session_id |-> q.session_id,
      steps_in_chunk |-> q.steps_in_chunk, cumulative_steps |-> q.cumulative_steps,
      prev_reported |-> IF q.session_id \in SessionIds
                        THEN lastReported[q.session_id] ELSE -1,
      floor |-> IF q.session_id \in SessionIds /\ q.kind = "put" /\ status = 200
                THEN discardFloor[q.session_id] ELSE -1 ]

\* the errors of the database calls that can fail
StorageErrors == {"session insert failed", "insertChunkRow failed",
                  "updateCollarOutputMetric failed"}

\* the request of slot r takes the outcome o
Apply(r, o) ==
    /\ req' = [req EXCEPT ![r] = IF o.status # 0 THEN Idle ELSE o.q]
    /\ heap' = o.m.heap
    /\ stepCounterBySession' = o.m.cache
    /\ lastChunkSamplesBySession' = o.m.last
    /\ fedLog' = o.m.fedLog
    /\ fedCount' = o.m.fedCount
    /\ instances' = o.m.instances
    /\ resp' = IF o.status # 0 THEN MkResp(o.q, o.status, o.error) ELSE resp
    /\ lastReported' = IF o.status = 200 /\ o.q.kind = "put"
                       THEN [lastReported EXCEPT ![o.q.session_id] = o.q.cumulative_steps]
                       ELSE lastReported
    /\ discardFloor' = IF o.status = 200 /\ o.q.kind = "put"
                       THEN [discardFloor EXCEPT ![o.q.session_id] = -1]
                       ELSE discardFloor
    /\ storageFailed' = (storageFailed \/ o.error \in StorageErrors)
    /\ UNCHANGED call

\* a request arrives in slot r
Arrive(r, q) == [req EXCEPT ![r] = q]

\* the sessions created since Init, those being created included
SessionsWanted == (IF Len(collar_sessions) >= 9 THEN Len(collar_sessions) - 9
                   ELSE Len(collar_sessions))
                    + Cardinality({x \in Slots : req[x].new_session})

(***************************************************************************)
(* PUT /chunks                                                             *)
(***************************************************************************)
\* lines 932-958: a body without data or collar_id (400) and a collar that
\* does not exist (404) are answered without any effect; the requests of the
\* model are the others.
PutInputs ==
    {[chunk |-> k, has_imu |-> TRUE, new_session |-> n] : k \in ChunkIds, n \in BOOLEAN}
      \cup {[chunk |-> 1, has_imu |-> FALSE, new_session |-> n] : n \in BOOLEAN}

PutChunks(r, maxOps) ==
    /\ req[r].pc = "idle"
    /\ ops < maxOps
    /\ ops' = ops + 1
    /\ UNCHANGED <<dbVars, memVars, histVars>>
    /\ UNCHANGED resp
    /\ \E in \in PutInputs :
         /\ in.new_session => SessionsWanted < MaxSessions
         /\ req' = Arrive(r, [Idle EXCEPT !.pc = "active", !.kind = "put",
                                          !.chunk = in.chunk, !.has_imu = in.has_imu,
                                          !.new_session = in.new_session,
                                          !.params_then = <<step_counter_params>>,
                                          !.mapping_then = <<mapping_json>>])

\* lines 949-987: the collar row (with mapping_json) and the active session
\* are read, then either session creation starts or the handler runs on to
\* its next await.  The two reads are one step: the handler touches nothing
\* between them.
PutGetActive(r) ==
    /\ req[r].pc = "active"
    /\ \E sid \in (IF ActiveSessions(collar_sessions) = {} THEN {0}
                   ELSE ActiveSessions(collar_sessions)) :
         LET q == [req[r] EXCEPT !.persistedMapping = mapping_json] IN
         IF q.new_session
         THEN /\ req' = [req EXCEPT ![r] = [q EXCEPT !.pc = "gen_select",
                                                     !.session_id = sid]]
              /\ UNCHANGED <<heap, stepCounterBySession, lastChunkSamplesBySession,
                             resp, histVars>>
         ELSE Apply(r, AfterSession(q, sid, Mem))
    /\ UNCHANGED <<dbVars, mappingByCollar, ops>>

\* the random ids other creations in flight have drawn: two draws of 96
\* random bits do not coincide
Drawn(r) ==
    {req[x].session_id : x \in {y \in Slots \ {r} : req[y].pc \in {"gen_update", "gen_commit"}}}

\* the ids a creation can pick: a random id is one no row and no other
\* creation has, and which one it is makes no difference (the least)
Pickable(r) ==
    LET ids == PickSessionId(collar_sessions) \ (Drawn(r) \cap HexIds) IN
    IF ids \subseteq HexIds /\ ids # {} THEN {Least(ids)} ELSE ids

\* generateAndInsertSession, lines 372-388: read the used ids, pick one
GenSelect(r) ==
    /\ req[r].pc = "gen_select"
    /\ \E sid \in Pickable(r) :
         req' = [req EXCEPT ![r].pc = "gen_update", ![r].session_id = sid]
    /\ UNCHANGED <<dbVars, memVars, ops, resp, histVars>>

\* lines 390-394: BEGIN; UPDATE ... SET active = FALSE touches the rows that
\* exist now; it becomes visible at COMMIT
GenUpdate(r) ==
    /\ req[r].pc = "gen_update"
    /\ req' = [req EXCEPT ![r].pc = "gen_commit",
                          ![r].deactivate = 1..Len(collar_sessions)]
    /\ UNCHANGED <<dbVars, memVars, ops, resp, histVars>>

\* a creation that leaves the deactivation in place when the insert fails
GenCommitNoRollback(r) ==
    /\ req[r].pc = "gen_commit"
    /\ UNCHANGED <<mapping_json, output_metric, collar_chunks, step_counter_params,
                   mappingByCollar, ops>>
    /\ \E ok \in BOOLEAN :
         IF ok
         THEN /\ collar_sessions' =
                   Append([i \in 1..Len(collar_sessions) |->
                              IF i \in req[r].deactivate
                              THEN [collar_sessions[i] EXCEPT !.active = FALSE]
                              ELSE collar_sessions[i]],
                          [session_id |-> req[r].session_id, active |-> TRUE])
              /\ Apply(r, AfterSession([req[r] EXCEPT !.created = TRUE],
                                       req[r].session_id, Mem))
         ELSE /\ collar_sessions' =
                   [i \in 1..Len(collar_sessions) |->
                       IF i \in req[r].deactivate
                       THEN [collar_sessions[i] EXCEPT !.active = FALSE]
                       ELSE collar_sessions[i]]
              /\ Apply(r, Replied(req[r], Mem, 500, "session insert failed"))

\* lines 395-406: INSERT and COMMIT, or ROLLBACK and rethrow when the insert
\* fails; the statement does not say which rows the table refuses, so an
\* insert of any id can succeed or fail
GenCommit(r) ==
    /\ req[r].pc = "gen_commit"
    /\ UNCHANGED <<mapping_json, output_metric, collar_chunks, step_counter_params,
                   mappingByCollar, ops>>
    /\ \E ok \in BOOLEAN :
         IF ok
         THEN /\ collar_sessions' =
                   Append([i \in 1..Len(collar_sessions) |->
                              IF i \in req[r].deactivate
                              THEN [collar_sessions[i] EXCEPT !.active = FALSE]
                              ELSE collar_sessions[i]],
                          [session_id |-> req[r].session_id, active |-> TRUE])
              /\ Apply(r, AfterSession([req[r] EXCEPT !.created = TRUE],
                                       req[r].session_id, Mem))
         ELSE /\ UNCHANGED collar_sessions
              /\ Apply(r, Replied(req[r], Mem, 500, "session insert failed"))

\* a handler that keeps the derived mapping in mappingByCollar only
PutMappingMemoryOnly(r) ==
    /\ req[r].pc = "mapping"
    /\ mappingByCollar' = req[r].mapping
    /\ Apply(r, ResolveCounter(req[r], req[r].session_id, Mem))
    /\ UNCHANGED <<dbVars, ops>>

\* lines 996-1002: the derived mapping is stored, then getOrInitStepCounter
PutMapping(r) ==
    /\ req[r].pc = "mapping"
    /\ mapping_json' = req[r].mapping
    /\ mappingByCollar' = req[r].mapping
    /\ Apply(r, ResolveCounter(req[r], req[r].session_id, Mem))
    /\ UNCHANGED <<collar_sessions, output_metric, collar_chunks, step_counter_params, ops>>

\* line 358: await getStepCounterParams
PutParams(r) ==
    /\ req[r].pc = "params"
    /\ req' = [req EXCEPT ![r].pc = "total",
                          ![r].params = getStepCounterParams(step_counter_params,
                                                             req[r].session_id)]
    /\ UNCHANGED <<dbVars, memVars, ops, resp, histVars>>

\* lines 359-363 and 1008-1034: await getSessionStepTotal, construct and
\* cache the counter, process the chunk
PutTotal(r) ==
    /\ req[r].pc = "total"
    /\ Apply(r, CreateCounter(req[r], req[r].session_id,
                              getSessionStepTotal(collar_chunks, req[r].session_id), Mem))
    /\ UNCHANGED <<dbVars, mappingByCollar, ops>>

\* lines 1036-1038: insertChunkRow; a failure is caught at line 1054
PutInsert(r) ==
    /\ req[r].pc = "insert"
    /\ UNCHANGED <<collar_sessions, mapping_json, output_metric, step_counter_params,
                   mappingByCollar, ops>>
    /\ \E ok \in BOOLEAN :
         IF ok
         THEN /\ collar_chunks' = Append(collar_chunks,
                     [session_id |-> req[r].session_id, chunk |-> req[r].chunk,
                      steps_in_chunk |-> req[r].steps_in_chunk,
                      cumulative_steps |-> req[r].cumulative_steps])
              /\ Apply(r, Running([req[r] EXCEPT !.pc = "update"], Mem))
         ELSE /\ UNCHANGED collar_chunks
              /\ Apply(r, Replied(req[r], Mem, 500, "insertChunkRow failed"))

\* lines 1041-1052: updateCollarOutputMetric with the counter's step_count
\* as it is when the call is made, then the response
PutUpdate(r) ==
    /\ req[r].pc = "update"
    /\ UNCHANGED <<collar_sessions, mapping_json, collar_chunks, step_counter_params,
                   mappingByCollar, ops>>
    /\ \E ok \in BOOLEAN :
         IF ok
         THEN /\ output_metric' = [output_metric EXCEPT ![req[r].session_id] =
                                       <<heap[req[r].sc].step_count>>]
              /\ Apply(r, Replied(req[r], Mem, 200, ""))
         ELSE /\ UNCHANGED output_metric
              /\ Apply(r, Replied(req[r], Mem, 500, "updateCollarOutputMetric failed"))

(***************************************************************************)
(* POST /step-counter-params                                               *)
(***************************************************************************)
\* lines 1070-1084; a body without collar_id or session_id is answered 400
\* without any effect
PostInputs ==
    {[session_id |-> SessionIdOf(1), body |-> b] : b \in ParamBodies}
      \cup {[session_id |-> SessionIdOf(MaxSessions), body |-> SmallWindowBody]}

PostParams(r, maxOps) ==
    /\ req[r].pc = "idle"
    /\ ops < maxOps
    /\ ops' = ops + 1
    /\ UNCHANGED <<dbVars, memVars, histVars>>
    /\ UNCHANGED resp
    /\ \E in \in PostInputs :
         req' = Arrive(r, [Idle EXCEPT !.pc = "validate", !.kind = "post",
                                       !.session_id = in.session_id,
                                       !.body = in.body])

\* lines 1087-1090
PostValidate(r) ==
    /\ req[r].pc = "validate"
    /\ IF validateCompositeSession(collar_sessions, req[r].session_id)
       THEN Apply(r, Running([req[r] EXCEPT !.pc = "upsert"], Mem))
       ELSE Apply(r, Replied(req[r], Mem, 404, "Invalid collar_id/session_id combination"))
    /\ UNCHANGED <<dbVars, mappingByCollar, ops>>

\* lines 1093-1116: the upsert stores all six values, then the cached
\* counter of the session is dropped
PostUpsert(r) ==
    /\ req[r].pc = "upsert"
    /\ step_counter_params' = [step_counter_params EXCEPT ![req[r].session_id] =
                                  << StoredParams(req[r].body) >>]
    /\ Apply(r, Replied(req[r],
                        [Mem EXCEPT !.cache = [stepCounterBySession EXCEPT
                                                  ![req[r].session_id] = 0]],
                        200, ""))
    /\ UNCHANGED <<collar_sessions, mapping_json, output_metric, collar_chunks,
                   mappingByCollar, ops>>

(***************************************************************************)
(* The process stops between two requests and starts again: the maps of    *)
(* lines 323-327 are empty again, the database is as it was.               *)
(***************************************************************************)
Restart ==
    /\ \A r \in Slots : req[r].pc = "idle"
    /\ heap # <<>>
    /\ heap' = <<>>
    /\ stepCounterBySession' = [s \in SessionIds |-> 0]
    /\ lastChunkSamplesBySession' = [s \in SessionIds |-> Null]
    /\ mappingByCollar' = Null
    /\ req' = [r \in Slots |-> Idle]
    /\ discardFloor' = lastReported
    /\ UNCHANGED <<dbVars, ops, resp, lastReported, fedLog, fedCount, instances, storageFailed, call>>

\* the steps of a process that receives at most maxOps requests
NextOps(maxOps) ==
    \/ \E r \in Slots :
         \/ PutChunks(r, maxOps)
         \/ PutGetActive(r)
         \/ GenSelect(r)
         \/ GenUpdate(r)
         \/ GenCommit(r)
         \/ PutMapping(r)
         \/ PutParams(r)
         \/ PutTotal(r)
         \/ PutInsert(r)
         \/ PutUpdate(r)
         \/ PostParams(r, maxOps)
         \/ PostValidate(r)
         \/ PostUpsert(r)
    \/ Restart

Next == NextOps(MaxOps)

Spec == Init /\ [][Next]_vars

\* the same process, receiving one request more
NextDeep == NextOps(DeepOps)

SpecDeep == Init /\ [][NextDeep]_vars

(***************************************************************************)
(* decodeChunkJson and mapSamplesToTimestamps called on their own: the     *)
(* arguments are drawn at the start, the call stores what it gives         *)
(***************************************************************************)
PureCalls ==
    { [NoCall EXCEPT !.fn = "decode", !.chunkObj = in.chunkObj, !.sent = in.sent,
                     !.tail = in.tail] : in \in DecodeInputs }
      \cup { [NoCall EXCEPT !.fn = "map", !.decoded = <<in.decoded>>, !.epoch = in.epoch,
                            !.persisted = in.persisted] : in \in MapInputs }

InitPure ==
    /\ InitDb("no_session")
    /\ call \in PureCalls

DecodeCall ==
    /\ call.fn = "decode"
    /\ call.result = Null
    /\ call' = [call EXCEPT !.result = << decodeChunkJson(call.chunkObj) >>]
    /\ UNCHANGED <<dbVars, memVars, req, ops, resp, lastReported, fedLog, fedCount,
                   discardFloor, instances, storageFailed>>

MapCall ==
    /\ call.fn = "map"
    /\ call.result = Null
    /\ call' = [call EXCEPT !.result =
                   << mapSamplesToTimestamps(call.decoded[1], call.persisted) >>]
    /\ UNCHANGED <<dbVars, memVars, req, ops, resp, lastReported, fedLog, fedCount,
                   discardFloor, instances, storageFailed>>

NextPure == DecodeCall \/ MapCall

SpecPure == InitPure /\ [][NextPure]_vars

(***************************************************************************)
(* One StepCounter on its own: it is constructed from the parameters       *)
(* getStepCounterParams returns for a session (no row, or the row a POST   *)
(* /step-counter-params has stored) and is fed one sample after the other, *)
(* as the loop of processChunk does.  call.fed is the combined             *)
(* acceleration of every sample fed so far, call.flt the value             *)
(* filterProcess returned for it (times unit), call.window the counter as  *)
(* processAccumulatedData found it when the last sample fed filled the     *)
(* window (Null when it did not).                                          *)
(***************************************************************************)
MaxFeed == 6

\* bodies of POST /step-counter-params; all keep the windows small
TinyBody == [NoParams EXCEPT !.peak_window_n = <<1>>, !.filter_window_size = <<1>>,
                             !.process_window_samples = <<5>>]

CounterBodies ==
    { TinyBody,
      [TinyBody EXCEPT !.filter_window_size = <<2>>],
      [TinyBody EXCEPT !.filter_window_size = <<3>>, !.process_window_samples = <<4>>],
      [TinyBody EXCEPT !.peak_threshold = <<5>>],
      [TinyBody EXCEPT !.peak_threshold = <<5>>, !.run_start_threshold = <<10>>],
      [TinyBody EXCEPT !.peak_threshold = <<0>>],
      [TinyBody EXCEPT !.peak_threshold = <<0 - 1>>] }

\* what getStepCounterParams can return: {} or a stored row
ParamRows == {NoParams} \cup {StoredParams(b) : b \in CounterBodies}

\* the accelerations of the samples fed (on the x axis; gx is 0)
FeedAccel == {0, 8, 15, 40}

InitCounter ==
    /\ InitDb("no_session")
    /\ call \in {[NoCall EXCEPT !.fn = "count", !.params = p] : p \in ParamRows}

\* getOrInitStepCounter line 359: new StepCounter(params)
Construct ==
    /\ call.fn = "count"
    /\ call.sc = Null
    /\ call' = [call EXCEPT !.sc = << NewStepCounter(call.params) >>]
    /\ UNCHANGED <<dbVars, memVars, req, ops, resp, lastReported, fedLog, fedCount,
                   discardFloor, instances, storageFailed>>

\* one turn of the loop of processChunk
Feed ==
    /\ call.fn = "count"
    /\ call.sc # Null
    /\ Len(call.fed) < MaxFeed
    /\ \E ax \in FeedAccel :
         LET sample == [ax |-> ax, ay |-> 0, az |-> 0, gx |-> 0]
             combinedAcc == calculateCombinedAcceleration(sample.ax, sample.ay, sample.az) IN
         call' = [call EXCEPT !.sc = << processSample(call.sc[1], sample) >>,
                              !.fed = Append(@, combinedAcc),
                              !.flt = Append(@, FilterOut(filterProcess(call.sc[1], combinedAcc))),
                              !.window = IF WindowFull(detectSample(call.sc[1], sample))
                                         THEN << detectSample(call.sc[1], sample) >>
                                         ELSE Null]
    /\ UNCHANGED <<dbVars, memVars, req, ops, resp, lastReported, fedLog, fedCount,
                   discardFloor, instances, storageFailed>>

NextCounter == Construct \/ Feed

SpecCounter == InitCounter /\ [][NextCounter]_vars

(***************************************************************************)
(* One session's counter over one chunk that fills a processing window,   *)
(* its report, and the counter's re-creation after a restart.  RunRow's   *)
(* window is long enough for a run that counts a step; SpanRow detects     *)
(* peaks below the shake threshold.                                        *)
(***************************************************************************)
RunRow == StoredParams([NoParams EXCEPT !.peak_window_n = <<1>>,
                                        !.filter_window_size = <<1>>,
                                        !.process_window_samples = <<10>>])

SpanRow == StoredParams([NoParams EXCEPT !.peak_window_n = <<1>>,
                                         !.filter_window_size = <<1>>,
                                         !.process_window_samples = <<8>>,
                                         !.peak_threshold = <<5>>])

BoutRows == {RunRow, SpanRow}

\* the combined accelerations the samples of a chunk take
BoutAccel(params) == IF params = RunRow THEN {0, 15, 40} ELSE {0, 8, 10, 15, 40}

BoutSession == SessionIdOf(1)

InitBout ==
    /\ InitDb("no_session")
    /\ call \in {[NoCall EXCEPT !.fn = "count", !.params = p] : p \in BoutRows}

\* getOrInitStepCounter, lines 357-362: a new StepCounter seeded with the
\* session's persisted total; line 1018 reads it as `before`
GetOrInit ==
    /\ call.fn = "count"
    /\ call.sc = Null
    /\ LET total == getSessionStepTotal(collar_chunks, BoutSession) IN
       call' = [call EXCEPT !.sc = << [NewStepCounter(call.params)
                                          EXCEPT !.step_count = total] >>,
                            !.before = total]
    /\ UNCHANGED <<dbVars, memVars, req, ops, resp, lastReported, fedLog, fedCount,
                   discardFloor, instances, storageFailed>>

\* one turn of the loop of processChunk, for a chunk of one window
FeedBout ==
    /\ call.fn = "count"
    /\ call.sc # Null
    /\ call.metric = Null
    /\ Len(call.fed) < call.sc[1].PROCESS_WINDOW_SAMPLES
    /\ \E ax \in BoutAccel(call.params) :
         LET sample == [ax |-> ax, ay |-> 0, az |-> 0, gx |-> 0]
             combinedAcc == calculateCombinedAcceleration(sample.ax, sample.ay, sample.az) IN
         call' = [call EXCEPT !.sc = << processSample(call.sc[1], sample) >>,
                              !.fed = Append(@, combinedAcc),
                              !.flt = Append(@, FilterOut(filterProcess(call.sc[1], combinedAcc))),
                              !.window = IF WindowFull(detectSample(call.sc[1], sample))
                                         THEN << detectSample(call.sc[1], sample) >>
                                         ELSE Null]
    /\ UNCHANGED <<dbVars, memVars, req, ops, resp, lastReported, fedLog, fedCount,
                   discardFloor, instances, storageFailed>>

\* lines 1020-1045 once processChunk has returned: outputMetric, the chunk
\* row and the session's steps on the collar
Report ==
    /\ call.fn = "count"
    /\ call.sc # Null
    /\ call.metric = Null
    /\ Len(call.fed) = call.sc[1].PROCESS_WINDOW_SAMPLES
    /\ LET after == call.sc[1].step_count
           outputMetric == [steps_in_chunk |-> after - call.before,
                            cumulative_steps |-> call.sc[1].step_count] IN
       /\ call' = [call EXCEPT !.metric = <<outputMetric>>, !.fed = <<>>, !.flt = <<>>,
                               !.window = Null]
       /\ collar_chunks' = Append(collar_chunks,
              [session_id |-> BoutSession, chunk |-> 1,
               steps_in_chunk |-> outputMetric.steps_in_chunk,
               cumulative_steps |-> outputMetric.cumulative_steps])
       /\ output_metric' = [output_metric EXCEPT ![BoutSession] = <<call.sc[1].step_count>>]
    /\ UNCHANGED <<collar_sessions, mapping_json, step_counter_params, memVars, req, ops,
                   resp, lastReported, fedLog, fedCount, discardFloor, instances,
                   storageFailed>>

\* the process restarts: stepCounterBySession is empty again
RestartBout ==
    /\ call.fn = "count"
    /\ call.sc # Null
    /\ call.metric # Null
    /\ call.old = Null
    /\ call' = [call EXCEPT !.old = call.sc, !.sc = Null]
    /\ UNCHANGED <<dbVars, memVars, req, ops, resp, lastReported, fedLog, fedCount,
                   discardFloor, instances, storageFailed>>

NextBout == GetOrInit \/ FeedBout \/ Report \/ RestartBout

SpecBout == InitBout /\ [][NextBout]_vars


\* the steps of the request in slot r after its arrival: each is the
\* completion of a database call the handler awaits.  They are all the
\* process does by itself; it sets no timer.
Handler(r) ==
    \/ PutGetActive(r)
    \/ GenSelect(r)
    \/ GenUpdate(r)
    \/ GenCommit(r)
    \/ PutMapping(r)
    \/ PutParams(r)
    \/ PutTotal(r)
    \/ PutInsert(r)
    \/ PutUpdate(r)
    \/ PostValidate(r)
    \/ PostUpsert(r)


(***************************************************************************)
(* Properties                                                              *)
(***************************************************************************)
SessionRows(session_id) ==
    SelectSeq(collar_chunks, LAMBDA row : row.session_id = session_id)

OthersIdle(r) == \A x \in Slots \ {r} : req[x].pc = "idle"

\* a request that has run processChunk and not answered yet
Holding(r) == req[r].pc \in {"insert", "update"}

\* Slot r has just processed a chunk of a session whose only earlier chunk
\* was answered 200, both by the one StepCounter the session ever had, with
\* no other request in flight.
SecondCallProcessed(r, first, second) ==
    /\ req[r].pc = "insert"
    /\ OthersIdle(r)
    /\ fedLog[req[r].session_id] = <<first, second>>
    /\ instances[req[r].session_id] = 1
    /\ Len(SessionRows(req[r].session_id)) = 1
    /\ lastReported[req[r].session_id] = SessionRows(req[r].session_id)[1].cumulative_steps

\* a counter with the parameters of sc, as the constructor leaves it
FreshLike(sc) ==
    [sc EXCEPT !.filterBuffer = [i \in 1..sc.FILTER_WINDOW_SIZE |-> 0],
               !.filterIndex = 0, !.filterSum = 0, !.filterCount = 0,
               !.accBuffer = <<>>, !.gyroBuffer = <<>>, !.peaks = <<>>,
               !.valleys = <<>>, !.step_count = 0, !.running_steps = 0,
               !.leg_shake_removed = 0, !.sample_index = 0]

\* C1: the same chunk submitted a second time to a fresh session reports
\* steps_in_chunk = 0 and the cumulative_steps of the first call.
C1_ResubmittedChunkAddsNothing ==
    \A r \in Slots : \A k \in ChunkIds :
       SecondCallProcessed(r, k, k) =>
          /\ req[r].steps_in_chunk = 0
          /\ req[r].cumulative_steps = lastReported[req[r].session_id]

\* C2: no sample number is fed to the StepCounters of a session more than
\* once.
C2_SampleFedAtMostOnce ==
    \A s \in SessionIds : \A n \in SampleNumbers : fedCount[s][n] <= 1

\* C3: chunk 1 and then chunk 2 (contiguous sample numbers) on a fresh
\* session end with the cumulative count of one call on their concatenation.
C3_SplitEqualsConcatenation ==
    \A r \in Slots :
       SecondCallProcessed(r, 1, 2) =>
          req[r].cumulative_steps =
             processChunk(FreshLike(heap[req[r].sc]),
                          ChunkObj(1, TRUE).samples \o ChunkObj(2, TRUE).samples).step_count

\* C4: the cumulative_steps of a 200 response is never below the
\* cumulative_steps of the session's previous 200 response.
C4_ReportedCumulativeMonotonic ==
    (resp.kind = "put" /\ resp.status = 200) =>
        resp.cumulative_steps >= resp.prev_reported

\* C5: the first cumulative_steps a session reports after the maps were
\* discarded between requests is not below the last one it reported before.
C5_DiscardKeepsReportedTotal ==
    (resp.kind = "put" /\ resp.status = 200 /\ resp.floor >= 0) =>
        resp.cumulative_steps >= resp.floor

\* C6: a request that finds no cached counter reports cumulative_steps =
\* T + steps_in_chunk, T the sum of steps_in_chunk over the session's
\* persisted chunk rows when getSessionStepTotal reads them.
C6_SeededFromPersistedTotal ==
    [][\A r \in Slots :
          (req[r].pc = "total" /\ req'[r].pc = "insert") =>
             /\ req'[r].cumulative_steps =
                  SumSteps(collar_chunks, req[r].session_id) + req'[r].steps_in_chunk
             /\ req'[r].steps_in_chunk >= 0]_vars

\* C6 witness: a counter was seeded from a persisted total above 0 and the
\* chunk added steps to it.
C6_Witness ==
    \E r \in Slots :
       /\ req[r].pc = "insert"
       /\ req[r].total > 0
       /\ req[r].total = SumSteps(collar_chunks, req[r].session_id)
       /\ req[r].steps_in_chunk > 0
       /\ req[r].cumulative_steps = req[r].total + req[r].steps_in_chunk

\* C7: two requests of one session that hold a StepCounter hold the same
\* one.
C7_OneCounterPerSession ==
    \A r1 \in Slots : \A r2 \in Slots :
       (Holding(r1) /\ Holding(r2) /\ req[r1].session_id = req[r2].session_id) =>
           req[r1].sc = req[r2].sc

\* C8: while a request holds its session's counter and waits for its
\* storage writes, no step changes the session's cache entry, its
\* previous-chunk buffer or the counter.
C8_SessionOperationsSerialized ==
    [][\A r \in Slots :
          (Holding(r) /\ req'[r] = req[r]) =>
             /\ stepCounterBySession'[req[r].session_id]
                  = stepCounterBySession[req[r].session_id]
             /\ lastChunkSamplesBySession'[req[r].session_id]
                  = lastChunkSamplesBySession[req[r].session_id]
             /\ heap'[req[r].sc] = heap[req[r].sc]]_vars

\* C9: when insertChunkRow or updateCollarOutputMetric fails, the request
\* answers 500 and the counter's step_count is what it was before the chunk.
C9_FailedWriteLeavesCounter ==
    [][\A r \in Slots :
          (Holding(r) /\ OthersIdle(r) /\ req'[r].pc = "idle" /\ resp'.status = 500) =>
             heap'[req[r].sc].step_count = req[r].before]_vars

\* C10: no step of a PUT /chunks whose chunk has no imu_data changes the
\* database or the in-memory maps.
C10_MissingImuMutatesNothing ==
    [][\A r \in Slots :
          (req[r].kind = "put" /\ ~req[r].has_imu /\ req'[r] # req[r]) =>
             UNCHANGED <<dbVars, memVars>>]_vars

\* C11: a PUT /chunks without new_session that finds no active session is
\* answered 400 'No active session' and changes neither the database nor
\* the in-memory maps.
C11_NoActiveSessionRejected ==
    [][\A r \in Slots :
          (/\ req[r].pc = "active"
           /\ ~req[r].new_session
           /\ ActiveSessions(collar_sessions) = {}
           /\ req'[r] # req[r]) =>
             /\ req'[r].pc = "idle"
             /\ resp'.kind = "put"
             /\ resp'.status = 400
             /\ resp'.error = "No active session"
             /\ UNCHANGED <<dbVars, memVars>>]_vars

\* C11 witness: such a request was answered while the collar had no session
\* row, no mapping, no counter, no buffer and no chunk row.
C11_Witness ==
    /\ resp.kind = "put"
    /\ resp.status = 400
    /\ resp.error = "No active session"
    /\ collar_sessions = <<>>
    /\ collar_chunks = <<>>
    /\ mapping_json = Null
    /\ heap = <<>>
    /\ \A s \in SessionIds : lastChunkSamplesBySession[s] = Null

\* C12: the collar never has more than one session row with active = TRUE.
C12_AtMostOneActiveSession ==
    Cardinality({i \in 1..Len(collar_sessions) : collar_sessions[i].active}) <= 1

\* the six values a StepCounter takes from its params
CounterParams(sc) ==
    << sc.PEAK_THRESHOLD, sc.PEAK_WINDOW_N, sc.FILTER_WINDOW_SIZE,
       sc.PROCESS_WINDOW_SAMPLES, sc.RUN_START_THRESHOLD, sc.SHAKE_START_THRESHOLD >>

\* C13: a chunk whose request arrived when the session's parameter row was
\* already what it is now is processed by a StepCounter built from that row.
C13_ChunkUsesStoredParams ==
    [][\A r \in Slots :
          (/\ req[r].kind = "put"
           /\ req[r].pc # "insert"
           /\ req'[r].pc = "insert"
           /\ req[r].params_then[1][req'[r].session_id] # Null
           /\ step_counter_params[req'[r].session_id]
                = req[r].params_then[1][req'[r].session_id]) =>
             CounterParams(heap'[req'[r].sc])
               = CounterParams(NewStepCounter(step_counter_params[req'[r].session_id][1]))]_vars

\* the maps hold something for the session
HasState(s) == stepCounterBySession[s] # 0 \/ lastChunkSamplesBySession[s] # Null

\* C14: the in-memory state of a session is removed without a further
\* request: whenever no request is in flight and the maps hold state of a
\* session, the process has a step of its own that removes it.
C14_IdleSessionEvicted ==
    \A s \in SessionIds :
       ((\A r \in Slots : req[r].pc = "idle") /\ HasState(s)) =>
           ENABLED (\E r \in Slots : Handler(r) /\ ~HasState(s)')

\* the session a step of the PUT /chunks request in slot r works under, once
\* the request has one
StepSession(r) ==
    IF req[r].pc \in {"mapping", "params", "total", "insert", "update"}
    THEN req[r].session_id ELSE req'[r].session_id

\* C15: a step of PUT /chunks under one session leaves every other
\* session's cache entry, cached counter, previous-chunk buffer, persisted
\* step total and collar metric as they were; the first chunk a session
\* ever processes is counted from 0.
C15_OtherSessionsUntouched ==
    [][\A r \in Slots :
          (/\ req[r].kind = "put"
           /\ req'[r] # req[r]
           /\ \/ req[r].pc \in {"mapping", "params", "total", "insert", "update"}
              \/ req'[r].pc \in {"mapping", "params", "insert"}) =>
             /\ \A t \in SessionIds \ {StepSession(r)} :
                   /\ stepCounterBySession'[t] = stepCounterBySession[t]
                   /\ lastChunkSamplesBySession'[t] = lastChunkSamplesBySession[t]
                   /\ stepCounterBySession[t] # 0 =>
                        heap'[stepCounterBySession[t]] = heap[stepCounterBySession[t]]
                   /\ SumSteps(collar_chunks', t) = SumSteps(collar_chunks, t)
                   /\ output_metric'[t] = output_metric[t]
             /\ (req[r].pc # "insert" /\ req'[r].pc = "insert"
                   /\ fedLog[StepSession(r)] = <<>>) =>
                   /\ req'[r].before = 0
                   /\ req'[r].cumulative_steps = req'[r].steps_in_chunk]_vars

\* C15 witness: the first chunk of a session created by its request has been
\* processed from 0 while an earlier session of the collar has a cached
\* counter and persisted steps.
C15_Witness ==
    \E r \in Slots : \E t \in SessionIds :
       /\ req[r].pc = "insert"
       /\ req[r].created
       /\ t # req[r].session_id
       /\ fedLog[req[r].session_id] = <<req[r].chunk>>
       /\ req[r].before = 0
       /\ req[r].cumulative_steps = req[r].steps_in_chunk
       /\ stepCounterBySession[t] # 0
       /\ heap[stepCounterBySession[t]].step_count > 0
       /\ SumSteps(collar_chunks, t) > 0

\* C16: when no PUT /chunks is in flight and no database call has failed,
\* the cached counter's step_count of a session, the steps stored for the
\* session on the collar and the sum of steps_in_chunk over the session's
\* chunk rows are equal.
C16_TotalsAgree ==
    \A s \in SessionIds :
       (/\ ~storageFailed
        /\ \A r \in Slots : req[r].kind # "put"
        /\ stepCounterBySession[s] # 0) =>
          /\ heap[stepCounterBySession[s]].step_count = SumSteps(collar_chunks, s)
          /\ output_metric[s] = <<SumSteps(collar_chunks, s)>>

\* a finished call of decodeChunkJson / of mapSamplesToTimestamps
Decoded == call.fn = "decode" /\ call.result # Null

Mapped == call.fn = "map" /\ call.result # Null

\* the payload of the call is a string that is not empty
PayloadGiven ==
    /\ call.chunkObj # Null
    /\ call.chunkObj[1].imu_data # Null
    /\ call.chunkObj[1].imu_data[1].type = "string"
    /\ call.chunkObj[1].imu_data[1].chars # <<>>

\* C17: decodeChunkJson on a payload that decodes to 32*k bytes, or to
\* 32*k+r bytes with 0 < r < 32, raises no error and returns exactly k
\* samples in buffer order, the i-th being the record of bytes
\* [32i, 32i+32); the r trailing bytes are dropped.  (The payload is the
\* base64 of k records followed by r bytes; an empty string counts as no
\* payload.)
C17_WholeRecordsDecoded ==
    (Decoded /\ PayloadGiven /\ call.tail < BYTES_PER_SAMPLE) =>
        /\ ~call.result[1].threw
        /\ Len(call.result[1].value.samples) = Len(call.sent)
        /\ \A i \in 1..Len(call.sent) : call.result[1].value.samples[i] = call.sent[i]

C17_Witness ==
    /\ Decoded /\ PayloadGiven
    /\ Len(call.sent) = 2 /\ call.sent[1] # call.sent[2]
    /\ call.tail = BYTES_PER_SAMPLE - 1
    /\ ~call.result[1].threw
    /\ Len(call.result[1].value.samples) = 2

\* C18: decodeChunkJson raises an error only when the chunk object or its
\* imu_data is absent (no object, no imu_data, or imu_data '') or is not a
\* string that base64 can decode; every string payload that is present
\* returns a sample list without error, also one that decodes to less than
\* one whole record.
C18_ThrowsOnlyWhenAbsent ==
    Decoded =>
        /\ call.result[1].threw =>
              \/ call.chunkObj = Null
              \/ call.chunkObj[1].imu_data = Null
              \/ call.chunkObj[1].imu_data[1].type # "string"
              \/ call.chunkObj[1].imu_data[1].chars = <<>>
        /\ PayloadGiven =>
              /\ ~call.result[1].threw
              /\ call.result[1].value.samples \in Seq(WireSamples)

C18_Witness ==
    /\ Decoded /\ PayloadGiven
    /\ call.sent = <<>> /\ call.tail = BYTES_PER_SAMPLE - 1
    /\ ~call.result[1].threw
    /\ call.result[1].value.samples = <<>>

\* the timestamp the reference (epoch, start) gives the sample s
ReferenceTime(s, epoch, start, period) == epoch + (s.sample_number - start) * period

\* the chunk of the call supplies a parseable real_time and a start_sample
OwnReference == call.epoch # Null /\ call.decoded[1].start_sample # Null

\* C19: mapSamplesToTimestamps never fails and gives every sample s, in
\* order, the timestamp reference_epoch_ms + (s.sample_number -
\* start_sample) * nominal_period_ms: with the chunk's own reference when
\* the chunk supplies a parseable real_time and a start_sample, otherwise
\* with the collar's persisted mapping, and s.timestamp_ms_dev unchanged
\* when there is neither.
C19_TimestampFallbackChain ==
    Mapped =>
        LET samples == call.decoded[1].samples
            mapped == call.result[1].mapped IN
        /\ Len(mapped) = Len(samples)
        /\ \A i \in 1..Len(samples) :
              /\ mapped[i].sample_number = samples[i].sample_number
              /\ mapped[i].ts =
                    IF OwnReference
                    THEN ReferenceTime(samples[i], call.epoch[1],
                                       call.decoded[1].start_sample[1], NOMINAL_PERIOD_MS)
                    ELSE IF call.persisted # Null
                    THEN ReferenceTime(samples[i], call.persisted[1].real_time_epoch_ms,
                                       call.persisted[1].start_sample,
                                       call.persisted[1].nominalPeriodMs)
                    ELSE samples[i].timestamp_ms_dev

C19_Witness ==
    /\ Mapped
    /\ OwnReference /\ call.persisted # Null
    /\ Len(call.decoded[1].samples) = 2
    /\ call.result[1].mapped[2].ts # call.decoded[1].samples[2].timestamp_ms_dev
    /\ call.result[1].mapped[2].ts #
          ReferenceTime(call.decoded[1].samples[2], call.persisted[1].real_time_epoch_ms,
                        call.persisted[1].start_sample, call.persisted[1].nominalPeriodMs)

\* the chunk of the request in slot r supplies a valid (real_time, start_sample)
HasReference(r) ==
    /\ ChunkObj(req[r].chunk, TRUE).real_time # Null
    /\ ChunkObj(req[r].chunk, TRUE).start_sample # Null

\* the mapping the chunk of slot r gives: its start_sample at its real_time
OwnMapping(r) ==
    << [ start_sample |-> ChunkObj(req[r].chunk, TRUE).start_sample[1],
         real_time_epoch_ms |-> 1000,
         nominalPeriodMs |-> NOMINAL_PERIOD_MS ] >>

\* C20: once a chunk with a valid (real_time, start_sample) is processed
\* (answered 200) its mapping is the collar's persisted mapping; a chunk
\* without a valid reference that arrives while a mapping is persisted, and
\* is timestamped while that mapping still is, gets its timestamps from it,
\* whichever session (also a new one) it belongs to; and no step of a request
\* whose chunk has no valid reference changes the persisted mapping.
C20_PersistedMappingReused ==
    [][\A r \in Slots :
         (req[r].kind = "put" /\ req'[r] # req[r]) =>
           /\ (HasReference(r) /\ req'[r].pc = "idle" /\ resp'.status = 200) =>
                 mapping_json' = OwnMapping(r)
           /\ ~HasReference(r) => mapping_json' = mapping_json
           /\ ( /\ ~HasReference(r)
                /\ req[r].mapped = <<>> /\ req'[r].pc # "idle" /\ req'[r].mapped # <<>>
                /\ mapping_json # Null /\ req[r].mapping_then = <<mapping_json>> ) =>
                 \A i \in 1..Len(req'[r].mapped) :
                    req'[r].mapped[i].ts =
                       ReferenceTime(req'[r].mapped[i], mapping_json[1].real_time_epoch_ms,
                                     mapping_json[1].start_sample,
                                     mapping_json[1].nominalPeriodMs)
    ]_vars

\* a chunk without reference, in a session created for it, carries the
\* timestamps of the mapping that a chunk of another session has persisted
C20_Witness ==
    \E r \in Slots :
        /\ req[r].kind = "put" /\ ~HasReference(r) /\ req[r].created
        /\ req[r].mapped # <<>>
        /\ mapping_json # Null /\ mapping_json # <<EarlierMapping>>
        /\ req[r].mapped[1].ts =
              ReferenceTime(req[r].mapped[1], mapping_json[1].real_time_epoch_ms,
                            mapping_json[1].start_sample, mapping_json[1].nominalPeriodMs)
        /\ \E i \in 1..Len(collar_chunks) :
              /\ collar_chunks[i].session_id # req[r].session_id
              /\ collar_chunks[i].chunk = 1

\* C21: a POST /step-counter-params for a session that already has a stored
\* parameter record changes only the fields its body carries; every stored
\* field the body omits keeps the value it had.
C21_OmittedFieldsKept ==
    [][\A r \in Slots :
          (/\ req[r].kind = "post"
           /\ req[r].pc = "upsert"
           /\ step_counter_params[req[r].session_id] # Null
           /\ step_counter_params'[req[r].session_id] # Null) =>
             \A f \in DOMAIN NoParams :
                req[r].body[f] = Null =>
                   step_counter_params'[req[r].session_id][1][f]
                     = step_counter_params[req[r].session_id][1][f]]_vars

(***************************************************************************)
(* Properties of one StepCounter                                           *)
(***************************************************************************)
\* the counter of the call, once constructed
Built == call.fn = "count" /\ call.sc # Null

\* the six parameters the constructor reads, with their documented defaults
ParamUse ==
    [ peak_threshold |-> [used |-> call.sc[1].PEAK_THRESHOLD, default |-> 12],
      peak_window_n |-> [used |-> call.sc[1].PEAK_WINDOW_N, default |-> 4],
      filter_window_size |-> [used |-> call.sc[1].FILTER_WINDOW_SIZE, default |-> 5],
      process_window_samples |-> [used |-> call.sc[1].PROCESS_WINDOW_SAMPLES, default |-> 100],
      run_start_threshold |-> [used |-> call.sc[1].RUN_START_THRESHOLD, default |-> 30],
      shake_start_threshold |-> [used |-> call.sc[1].SHAKE_START_THRESHOLD, default |-> 12] ]

\* C22: every parameter stored for a session is the value the StepCounter
\* built for the session uses, an unset parameter resolves to its
\* documented default, and a stored value is never replaced by the default.
C22_StoredParamsUsed ==
    Built =>
       \A f \in DOMAIN NoParams :
          ParamUse[f].used = IF call.params[f] = Null THEN ParamUse[f].default
                             ELSE call.params[f][1]

\* the last sample fed filled the window: Pre is the counter as the flush
\* found it, Post the counter after it
Flushed == Built /\ call.window # Null

Pre == call.window[1]

Post == call.sc[1]

\* the peaks s..e of a flush are a run: s is the first peak above
\* run_start_threshold, every peak from s to e-1 is above it, the peak e is
\* below run_end_threshold_low, and no paired swing disqualifies the run
IsRun(sc, s, e) ==
    /\ s < e
    /\ \A i \in 1..(s - 1) : ~(sc.peaks[i].value > sc.RUN_START_THRESHOLD * sc.unit)
    /\ \A i \in s..(e - 1) : sc.peaks[i].value > sc.RUN_START_THRESHOLD * sc.unit
    /\ sc.peaks[e].value < RUN_END_THRESHOLD_LOW * sc.unit
    /\ \A i \in s..(e - 1) :
          (i <= Len(sc.valleys)) =>
             (sc.peaks[i].value - sc.valleys[i].value)
                < sc.peaks[i].value - RUN_PEAK_VALLEY_DIFF * sc.unit

\* C23: in one flush, a run of peaks that all exceed run_start_threshold
\* followed by a peak below run_end_threshold_low, no paired peak-valley
\* swing reaching the disqualifying bound, increases running_steps by
\* round((index of the end peak - index of the start peak) *
\* run_scaling_factor / baseline_step_samples), and none of the peaks from
\* the start peak through the end peak is added to step_count.
C23_RunCountedAsRunning ==
    Flushed =>
       \A s, e \in 1..Len(Pre.peaks) :
          IsRun(Pre, s, e) =>
             /\ Post.running_steps - Pre.running_steps
                  = MathRound((Pre.peaks[e].index - Pre.peaks[s].index) * 21, 29 * 10)
             /\ Post.step_count - Pre.step_count <= Len(Pre.peaks) - (e - s + 1)

\* the peaks 1..n of a flush are a burst: each lies between
\* shake_start_threshold and shake_regional_peak_max and below
\* run_start_threshold, every paired swing is small, the gyroscope is at
\* rest, and what follows the burst in the window is nothing or one peak
\* below shake_start_threshold
IsBurst(sc, n) ==
    /\ n >= 1
    /\ n = Len(sc.peaks) \/ n + 1 = Len(sc.peaks)
    /\ \A j \in 1..n :
          /\ sc.peaks[j].value > sc.SHAKE_START_THRESHOLD * sc.unit
          /\ sc.peaks[j].value < SHAKE_REGIONAL_PEAK_MAX * sc.unit
          /\ sc.peaks[j].value < sc.RUN_START_THRESHOLD * sc.unit
          /\ (j <= Len(sc.valleys)) =>
                (sc.peaks[j].value - sc.valleys[j].value)
                   < sc.peaks[j].value - SHAKE_PEAK_VALLEY_DIFF * sc.unit
    /\ n + 1 = Len(sc.peaks) =>
          sc.peaks[n + 1].value < sc.SHAKE_START_THRESHOLD * sc.unit
    /\ \A i \in 1..Len(sc.gyroBuffer) : sc.gyroBuffer[i] = 0

\* C24: in one flush, a burst of peaks between shake_start_threshold and
\* shake_regional_peak_max, with small swings and a gyroscope variance
\* below shake_variance_threshold, adds none of its peaks to step_count and
\* increases leg_shake_removed by the number of its peaks, for every
\* parameter setting and whether or not a later peak below
\* shake_start_threshold follows the burst in the window.
C24_BurstRemoved ==
    Flushed =>
       \A n \in 1..Len(Pre.peaks) :
          IsBurst(Pre, n) =>
             /\ Post.step_count - Pre.step_count <= Len(Pre.peaks) - n
             /\ Post.leg_shake_removed - Pre.leg_shake_removed = n

\* the filtered values within n positions of sample index k (counted from
\* 0) on either side, as far as they have been fed
Around(k, n) ==
    {call.flt[j] : j \in {i \in 1..Len(call.flt) : i # k + 1 /\ i >= k + 1 - n /\ i <= k + 1 + n}}

\* C25: a filtered sample is recorded as a peak only if its value exceeds
\* peak_threshold and no sample within peak_window_n positions on either
\* side of it is greater than or equal to it, and as a valley only if no
\* sample within valley_window_n positions on either side is less than or
\* equal to it (ties disqualify): every entry of the peak list and of the
\* valley list is such a sample of the acceleration history.
C25_StrictLocalExtremum ==
    Built =>
       /\ \A i \in 1..Len(Post.peaks) :
             /\ Post.peaks[i].value > Post.PEAK_THRESHOLD * Post.unit
             /\ \A v \in Around(Post.peaks[i].index, Post.PEAK_WINDOW_N) :
                   ~(v >= Post.peaks[i].value)
       /\ \A i \in 1..Len(Post.valleys) :
             \A v \in Around(Post.valleys[i].index, 2) : ~(v <= Post.valleys[i].value)

\* the last sample fed: its index (counted from 0) and filtered value
LastIndex == Len(call.flt) - 1

\* the sample just fed exceeds peak_threshold and each of the
\* peak_window_n samples fed before it
LeftPeak ==
    /\ call.flt[Len(call.flt)] > Post.PEAK_THRESHOLD * Post.unit
    /\ \A j \in 1..Post.PEAK_WINDOW_N :
          (Len(call.flt) - j >= 1) => call.flt[Len(call.flt) - j] < call.flt[Len(call.flt)]

\* C26: no peak or valley is recorded for one of the first 2*peak_window_n
\* samples of a counter's life, and every later sample is tested: one that
\* exceeds peak_threshold and the peak_window_n samples before it is in the
\* peak list after the call (unless the call flushed the list), also when
\* a flush has trimmed the history shortly before.
C26_NoSampleSkipped ==
    (Built /\ call.flt # <<>>) =>
       /\ \A i \in 1..Len(Post.peaks) : Post.peaks[i].index >= 2 * Post.PEAK_WINDOW_N
       /\ \A i \in 1..Len(Post.valleys) : Post.valleys[i].index >= 2 * Post.PEAK_WINDOW_N
       /\ (LastIndex >= 2 * Post.PEAK_WINDOW_N /\ call.window = Null /\ LeftPeak) =>
             \E i \in 1..Len(Post.peaks) : Post.peaks[i].index = LastIndex

\* C27: whenever the acceleration history reaches process_window_samples
\* entries a flush runs, and after every flush the acceleration and
\* gyroscope histories hold exactly their last peak_window_n entries and
\* the peak list and the valley list are both empty, also when the flush
\* found no peak.
C27_FlushTrimsAndClears ==
    Flushed =>
       /\ Post.accBuffer = SeqLast(Pre.accBuffer, Post.PEAK_WINDOW_N)
       /\ Len(Post.accBuffer) = Post.PEAK_WINDOW_N
       /\ Post.gyroBuffer = SeqLast(Pre.gyroBuffer, Post.PEAK_WINDOW_N)
       /\ Len(Post.gyroBuffer) = Post.PEAK_WINDOW_N
       /\ Post.peaks = <<>>
       /\ Post.valleys = <<>>

\* the number of calls of filterProcess so far, and how many inputs the
\* filter averages over
Calls == Len(call.fed)

Held == IF Calls < Post.FILTER_WINDOW_SIZE THEN Calls ELSE Post.FILTER_WINDOW_SIZE

StartPeaks(sc) ==
    {i \in 1..Len(sc.peaks) : sc.peaks[i].value > sc.RUN_START_THRESHOLD * sc.unit}

EndPeaks(sc) ==
    {i \in 1..Len(sc.peaks) :
        \/ sc.peaks[i].value < 20 * sc.unit
        \/ sc.peaks[i].value < 12 * sc.unit}

\* C29: in running detection run_start is the first peak exceeding
\* run_start_threshold and run_end, when there is one, is the first peak
\* strictly after run_start that is below run_end_threshold_high or below
\* run_end_threshold_low; run_end never equals run_start, whatever
\* run_start_threshold is stored.
C29_RunEndAfterRunStart ==
    Flushed =>
       /\ RunStart(Pre) = Least(StartPeaks(Pre))
       /\ RunStart(Pre) # 0 =>
             RunEnd(Pre) = Least({i \in EndPeaks(Pre) : i > RunStart(Pre)})
       /\ RunEnd(Pre) # 0 => RunEnd(Pre) # RunStart(Pre)

\* the peaks a flush zeroes: those with value 0 after running and shake
\* classification
Zeroed(sc) ==
    LET classified == detectAndRemoveLegShaking(detectAndCountRunning(sc)) IN
    {i \in 1..Len(sc.peaks) : classified.peaks[i].value = 0}

\* C30: a peak zeroed by running or shake classification in a flush is not
\* counted as a normal step in that flush, whatever peak_threshold is
\* stored (zero and negative values included), and no detected peak has the
\* value 0 that marks a peak as excluded.
C30_ZeroedPeaksNotCounted ==
    Flushed =>
       /\ \A i \in 1..Len(Pre.peaks) : Pre.peaks[i].value # 0
       /\ Post.step_count - Pre.step_count <= Len(Pre.peaks) - Cardinality(Zeroed(Pre))

\* C31: a span is classified as leg shaking in a flush only when the
\* gyroscope variance check was performed and passed: the gyroscope buffer
\* holds at least 10 samples and its population variance is at most
\* shake_variance_threshold.
C31_ShakeNeedsVarianceCheck ==
    (Flushed /\ Post.leg_shake_removed > Pre.leg_shake_removed) =>
       /\ Len(Pre.gyroBuffer) >= GYRO_MIN_SAMPLES
       /\ ~VarianceExceeds(Pre.gyroBuffer, SHAKE_VARIANCE_THRESHOLD)

\* the peaks of a flush that were not excluded and exceed peak_threshold
Countable(sc) ==
    {i \in 1..Len(sc.peaks) \ Zeroed(sc) :
        sc.peaks[i].value > sc.PEAK_THRESHOLD * sc.unit}

\* C32: a flush increases step_count by exactly the number of its peaks
\* that were not excluded by running or shake classification and whose
\* value exceeds peak_threshold, so the difference of step_count after and
\* before is that number and is never negative.
C32_FlushAddsCountablePeaks ==
    Flushed =>
       /\ Post.step_count - Pre.step_count = Cardinality(Countable(Pre))
       /\ Post.step_count - Pre.step_count >= 0

\* the request in slot r has its chunk processed in this step
Processes(r) == req[r].pc # "insert" /\ req'[r].pc = "insert"

\* the samples buffered for a session (none: the empty sequence)
Buffered(s) ==
    IF lastChunkSamplesBySession[s] = Null THEN <<>>
    ELSE lastChunkSamplesBySession[s][1]

\* the counter a processing step starts from: the cached one, or the one
\* getOrInitStepCounter has just constructed and seeded
CounterBefore(r) ==
    IF req'[r].sc <= Len(heap) THEN heap[req'[r].sc]
    ELSE [NewStepCounter(req'[r].params) EXCEPT !.step_count = req'[r].total]

C34_SessionIdsUnique ==
    \A i, j \in 1..Len(collar_sessions) :
       i # j => collar_sessions[i].session_id # collar_sessions[j].session_id

\* the creation in slot r fails at its insert in this step
InsertFails(r) ==
    /\ req[r].pc = "gen_commit"
    /\ resp'.error = "session insert failed"
    /\ req'[r].pc = "idle"

\* C36: when the insert of the new session fails after the collar's
\* sessions were deactivated, the deactivation is rolled back: the
\* session rows are as before the creation (the active session still
\* active, no new row) and the caller gets the error.
C36_FailedCreationRolledBack ==
    [][\A r \in Slots :
          InsertFails(r) =>
             /\ collar_sessions' = collar_sessions
             /\ resp'.status = 500]_vars

\* a creation has failed at its insert while the collar had an active
\* session, and that session is still active
C36_Witness ==
    /\ resp.status = 500
    /\ resp.error = "session insert failed"
    /\ \E i \in 1..Len(collar_sessions) : collar_sessions[i].active

\* the requests r1 and r2 have both had their chunks processed by the same
\* StepCounter, r1 first, and neither has been answered
SharedCounter(r1, r2) ==
    /\ r1 # r2
    /\ req[r1].pc \in {"insert", "update"}
    /\ req[r2].pc \in {"insert", "update"}
    /\ req[r1].sc = req[r2].sc
    /\ req[r1].cumulative_steps <= req[r2].cumulative_steps

\* C35: the chunk's steps are taken around processChunk with nothing in
\* between: at a processing step steps_in_chunk is the growth of the
\* counter's step_count in that step, the step changes no other counter,
\* and the steps two requests processed one after the other by one counter
\* report add up to the counter's growth since the first of them read it.
C35_DeltaIsOwnProcessing ==
    [][\A r \in Slots :
          Processes(r) =>
             /\ req'[r].steps_in_chunk =
                   heap'[req'[r].sc].step_count - CounterBefore(r).step_count
             /\ req'[r].steps_in_chunk >= 0
             /\ \A i \in 1..Len(heap) : i # req'[r].sc => heap'[i] = heap[i]
             /\ \A r1 \in Slots \ {r} :
                   (/\ req[r1].pc \in {"insert", "update"}
                    /\ req[r1].sc = req'[r].sc
                    /\ heap[req[r1].sc].step_count = req[r1].cumulative_steps) =>
                      heap'[req'[r].sc].step_count - req[r1].before
                         = req[r1].steps_in_chunk + req'[r].steps_in_chunk]_vars

\* two requests share one counter and each has added steps to it
C35_Witness ==
    \E r1, r2 \in Slots :
       /\ SharedCounter(r1, r2)
       /\ req[r1].steps_in_chunk > 0
       /\ req[r2].steps_in_chunk > 0
       /\ heap[req[r2].sc].step_count = req[r1].before + req[r1].steps_in_chunk + req[r2].steps_in_chunk

Counted(sc) ==
    LET classified == detectAndRemoveLegShaking(detectAndCountRunning(sc)) IN
    {i \in 1..Len(sc.peaks) : classified.peaks[i].value > sc.PEAK_THRESHOLD * sc.unit}

\* the chunk has been reported and persisted, the counter still cached
Reported == call.fn = "count" /\ call.metric # Null /\ call.old = Null /\ call.sc # Null

\* the counter of the session has been re-created after a restart
Recreated == call.fn = "count" /\ call.old # Null /\ call.sc # Null

\* C38: the steps of a running bout go to running_steps only: a flush
\* raises step_count by the peaks it counts as normal steps and by nothing
\* else, the chunk's steps_in_chunk and cumulative_steps and the persisted
\* totals are taken from step_count, and a re-created counter starts with
\* running_steps and leg_shake_removed at 0 (and step_count at the
\* persisted total).
C38_RunningStepsApart ==
    /\ Flushed =>
          Post.step_count - Pre.step_count = Cardinality(Counted(Pre))
    /\ Reported =>
          /\ call.metric[1].steps_in_chunk = Post.step_count - call.before
          /\ call.metric[1].cumulative_steps = Post.step_count
          /\ output_metric[BoutSession] = <<Post.step_count>>
          /\ getSessionStepTotal(collar_chunks, BoutSession) = Post.step_count
    /\ Recreated =>
          /\ Post.running_steps = 0
          /\ Post.leg_shake_removed = 0
          /\ Post.step_count = call.metric[1].cumulative_steps

\* a chunk with a running bout that counted a step was reported, and the
\* counter was re-created afterwards
C38_Witness ==
    /\ Recreated
    /\ call.old[1].running_steps > 0
    /\ call.metric[1].cumulative_steps = call.old[1].step_count

\* the peaks of a flush that running detection excludes
RunZeroed(sc) ==
    {i \in 1..Len(sc.peaks) : detectAndCountRunning(sc).peaks[i].value = 0}

\* C39: in a flush every detected peak is accounted for exactly once, as a
\* normal step, as a peak excluded by running detection or as a peak
\* removed as leg shaking: (normal steps) + (peaks excluded by running) +
\* (increase of leg_shake_removed) is the number of peaks, and
\* leg_shake_removed grows only by peaks running detection had not
\* excluded.
C39_PeakAccountedOnce ==
    Flushed =>
       /\ (Post.step_count - Pre.step_count) + Cardinality(RunZeroed(Pre))
             + (Post.leg_shake_removed - Pre.leg_shake_removed) = Len(Pre.peaks)
       /\ (Post.leg_shake_removed - Pre.leg_shake_removed)
             <= Len(Pre.peaks) - Cardinality(RunZeroed(Pre))

====
